---------------------------- MODULE Spec2Model ----------------------------
(***************************************************************************)
(* Match discovery and deduplication engine of sejusaas.                   *)
(*                                                                         *)
(* The repository holds three iterations of the monitor:                   *)
(*   main.py                          COH3StatsAnalyzer      (Main...)     *)
(*   sejusaas/services/game_monitor.py GameMonitorService    (Pkg...)      *)
(*   services/game_monitor.py          GameMonitorService    (Svc...)      *)
(* The monitor loops are the specifications SpecMain, SpecPkg and SpecSvc  *)
(* over the same variables; SpecPkgLive is the loop of the package running *)
(* for ever, with the fairness of its steps.  The pure functions           *)
(* (fingerprint, classifier, the wait between cycles, the extraction       *)
(* pipelines) are checked under SpecFp, SpecClassify, SpecSleep and        *)
(* SpecExtract, whose Init draws the inputs and whose actions apply the    *)
(* function; SpecResult does the same for the result of a match and        *)
(* SpecNav for the navigation retries.  SpecRace interleaves two writers   *)
(* on one store, SpecPlayers is the players collection, SpecRepeat the     *)
(* cycle of main.py over a fixed fetcher, SpecRoster process_matches over  *)
(* matches without participants, SpecLog the log level and SpecSheet the   *)
(* sheet of the exporter.                                                  *)
(*                                                                         *)
(* Python strings are TLA+ strings; they are compared by code point, as    *)
(* list.sort() compares them.                                              *)
(***************************************************************************)
EXTENDS Naturals, Integers, Sequences, FiniteSets, TLC

VARIABLES
    pc,                \* position of the specification's driver
    in1, in2,          \* inputs of the pure functions (two match dicts)
    out1, out2,        \* their results
    registered,        \* the registered_players argument / snapshot
    players,           \* players collection: player ids in find() order
    last_check_times,  \* self.last_check_times: player id -> time | NoneV
    custom_games,      \* custom_games collection, in insertion order
    auto_matches,      \* auto_matches collection, in insertion order
    now,               \* datetime.now(), a logical clock
    batch,             \* players_batch of the running cycle
    idx,               \* position of the cycle's for loop in the batch
    env,               \* the surroundings: what the site serves, who registers
    ret,               \* the last handler run: its inputs and what it returned
    checked,           \* history: the players whose check has completed
    cycles             \* history: roster, batch and updates of the latest cycles

pureVars == <<in1, in2, out1, out2>>
storeVars == <<players, last_check_times, custom_games, auto_matches, now,
               batch, idx, env, ret, checked, cycles>>
vars == <<pc, in1, in2, out1, out2, registered, players, last_check_times,
          custom_games, auto_matches, now, batch, idx, env, ret, checked,
          cycles>>

(***************************************************************************)
(* Python values                                                           *)
(***************************************************************************)

\* Python's None where a string is expected ("<" occurs in no modelled text).
NoneV == "<None>"

\* The exception a handler raised, where a result is expected.
TypeError == <<"raise", "TypeError">>

\* The printable ASCII characters in code point order, from 32 (space).  A
\* TLA+ string cannot hold the backquote (96): a tab, which occurs in no
\* modelled text, holds its place.
Ascii == " !\"#$%&'()*+,-./0123456789:;<=>?@ABCDEFGHIJKLMNOPQRSTUVWXYZ[\\]^_\tabcdefghijklmnopqrstuvwxyz{|}~"

CharAt(s, i) == SubSeq(s, i, i)

AsciiChars == {CharAt(Ascii, i) : i \in 1..Len(Ascii)}

\* ord(c)
Ord == [c \in AsciiChars |-> 31 + (CHOOSE i \in 1..Len(Ascii) : CharAt(Ascii, i) = c)]

\* chr(n)
Chr(n) == CharAt(Ascii, n - 31)

\* str < str: lexicographic by code point, a proper prefix first.
RECURSIVE StrLess(_, _)
StrLess(a, b) ==
    IF Len(b) = 0 THEN FALSE
    ELSE IF Len(a) = 0 THEN TRUE
    ELSE IF CharAt(a, 1) = CharAt(b, 1) THEN StrLess(Tail(a), Tail(b))
    ELSE Ord[CharAt(a, 1)] < Ord[CharAt(b, 1)]

\* str.lower()
RECURSIVE Lower(_)
Lower(s) ==
    IF Len(s) = 0 THEN ""
    ELSE LET c == CharAt(s, 1)
         IN  (IF Ord[c] \in 65..90 THEN Chr(Ord[c] + 32) ELSE c) \o Lower(Tail(s))

\* sub in s
Contains(sub, s) ==
    \E i \in 1..(Len(s) + 1) :
        /\ i + Len(sub) - 1 <= Len(s)
        /\ SubSeq(s, i, i + Len(sub) - 1) = sub

\* sep.join(parts)
RECURSIVE Join(_, _)
Join(sep, parts) ==
    IF Len(parts) = 0 THEN ""
    ELSE IF Len(parts) = 1 THEN parts[1]
    ELSE parts[1] \o sep \o Join(sep, Tail(parts))

\* One insertion step of list.sort(): x goes before the first larger element.
RECURSIVE Insert(_, _)
Insert(x, sorted) ==
    IF Len(sorted) = 0 THEN <<x>>
    ELSE IF StrLess(x, sorted[1]) THEN <<x>> \o sorted
    ELSE <<sorted[1]>> \o Insert(x, Tail(sorted))

\* list.sort() on a list of str (stable, ascending).
RECURSIVE SortStrings(_)
SortStrings(l) ==
    IF Len(l) = 0 THEN <<>>
    ELSE Insert(l[Len(l)], SortStrings(SubSeq(l, 1, Len(l) - 1)))

Range(f) == {f[i] : i \in DOMAIN f}

SeqsUpTo(S, n) == UNION {[1..k -> S] : k \in 0..n}

(***************************************************************************)
(* Fingerprint engine: generate_unique_match_id                            *)
(***************************************************************************)

\* hashlib.md5(s.encode()).hexdigest(), idealised as collision free: the
\* digest is a tagged copy of the hashed string.
MD5(s) == <<"md5", s>>

\* The loop that collects player.get('player_id') over axis + allies.
PlayerIds(match) ==
    LET entries == match.axis_players \o match.allies_players
    IN  [i \in 1..Len(entries) |-> entries[i].player_id]

\* UniqueString with the player_ids.sort() line left out.
UniqueStringUnsorted(match) ==
    Join("-", PlayerIds(match)) \o "_" \o match.match_date

\* UniqueString with the ids joined by '' instead of '-'.
UniqueStringNoJoiner(match) ==
    Join("", SortStrings(PlayerIds(match))) \o "_" \o match.match_date

\* f"{'-'.join(player_ids)}_{match.get('match_date', '')}" after player_ids.sort()
UniqueString(match) ==
    Join("-", SortStrings(PlayerIds(match))) \o "_" \o match.match_date

\* A None among the ids makes sort() (two or more ids) or join() (one id)
\* raise TypeError; otherwise the md5 of the unique string is returned.
generate_unique_match_id(match) ==
    IF \E i \in DOMAIN PlayerIds(match) : PlayerIds(match)[i] = NoneV
    THEN TypeError
    ELSE MD5(UniqueString(match))

(***************************************************************************)
(* Bounds and input sets                                                   *)
(***************************************************************************)

\* Most participants of a match drawn as input of the fingerprint.
MaxRoster == 2

\* Player ids as the site gives them: digit strings, one a prefix of another.
FpIds == {"1", "2", "12"}

\* Match dates: an ISO-like date, and one holding both separators.
FpDates == {"03-09", "2_03-09"}

Entry(id) == [player_id |-> id]

\* The fields generate_unique_match_id does not read, varied together.
OtherFields ==
    { [match_id |-> "custom_1", player_id |-> "1", match_type |-> "Custom Game"],
      [match_id |-> "table_2_1", player_id |-> "2", match_type |-> "Ranked 1v1"] }

MkMatch(other, date, axis, allies) ==
    [match_id |-> other.match_id, player_id |-> other.player_id,
     match_type |-> other.match_type, match_date |-> date,
     axis_players |-> axis, allies_players |-> allies]

FpEntries == {Entry(id) : id \in FpIds}

FpMatches ==
    { MkMatch(o, d, ax, al) :
        o \in OtherFields, d \in FpDates,
        ax \in SeqsUpTo(FpEntries, MaxRoster),
        al \in SeqsUpTo(FpEntries, MaxRoster) }

NoResult == <<"none">>
NoMatch == MkMatch(CHOOSE o \in OtherFields : TRUE, "", <<>>, <<>>)

\* self.last_check_times = {}
EmptyDict == [id \in {} |-> <<>>]

\* The surroundings of a run that only applies a pure function.
NoEnv == "none"

StoreIdle ==
    /\ players = <<>>
    /\ last_check_times = EmptyDict
    /\ custom_games = <<>>
    /\ auto_matches = <<>>
    /\ now = 0
    /\ batch = <<>>
    /\ idx = 1
    /\ env = NoEnv
    /\ ret = [op |-> "none"]
    /\ checked = {}
    /\ cycles = <<>>

(***************************************************************************)
(* SpecFp: the fingerprint applied to two drawn matches                    *)
(***************************************************************************)

InitFp ==
    /\ pc = "fp_input"
    /\ in1 \in FpMatches
    /\ in2 \in FpMatches
    /\ Len(in1.axis_players) + Len(in1.allies_players) <= MaxRoster
    /\ Len(in2.axis_players) + Len(in2.allies_players) <= MaxRoster
    /\ out1 = NoResult
    /\ out2 = NoResult
    /\ registered = <<>>
    /\ StoreIdle

GenerateIds ==
    /\ pc = "fp_input"
    /\ out1' = generate_unique_match_id(in1)
    /\ out2' = generate_unique_match_id(in2)
    /\ pc' = "fp_done"
    /\ UNCHANGED <<in1, in2, registered>>
    /\ UNCHANGED storeVars

NextFp == GenerateIds

SpecFp == InitFp /\ [][NextFp]_vars

(***************************************************************************)
(* Fingerprint claims                                                      *)
(***************************************************************************)

\* How often id occurs among the participants of match, on either side.
Occurrences(match, id) ==
    Cardinality({i \in DOMAIN match.axis_players : match.axis_players[i].player_id = id})
    + Cardinality({i \in DOMAIN match.allies_players : match.allies_players[i].player_id = id})

AllIds(match) ==
    {match.axis_players[i].player_id : i \in DOMAIN match.axis_players}
    \cup {match.allies_players[i].player_id : i \in DOMAIN match.allies_players}

SameParticipants(a, b) ==
    \A id \in AllIds(a) \cup AllIds(b) : Occurrences(a, id) = Occurrences(b, id)

\* C3: two matches with the same multiset of participant ids and the same
\* match_date get the same fingerprint, whatever the order of the players,
\* the side each is listed on and the other fields; and a fingerprint is
\* returned (nothing is raised) when every participant has an id.
FingerprintStability ==
    (pc = "fp_done" /\ SameParticipants(in1, in2) /\ in1.match_date = in2.match_date)
        => (out1 = out2 /\ out1 # TypeError /\ out1 # NoResult)

\* C3 witness: the same participants in another order, on other sides and
\* with other match_id / match_type / observer, fingerprinted.
FingerprintStabilityWitness ==
    /\ pc = "fp_done"
    /\ SameParticipants(in1, in2)
    /\ in1.match_date = in2.match_date
    /\ PlayerIds(in1) # PlayerIds(in2)
    /\ Len(in1.axis_players) # Len(in2.axis_players)
    /\ in1.match_id # in2.match_id
    /\ Cardinality(AllIds(in1)) >= 2

\* C4: two matches whose participant ids differ in any element, or whose
\* match_date differs, get different pre-hash strings and hence different
\* fingerprints; neither the '-' joiner nor the '_' before the date makes two
\* different (id list, date) pairs meet.
FingerprintSensitivity ==
    (pc = "fp_done" /\ (~SameParticipants(in1, in2) \/ in1.match_date # in2.match_date))
        => (UniqueString(in1) # UniqueString(in2) /\ out1 # out2)

\* C4 witness: different id lists whose digits agree once concatenated
\* ("1","2" against "12"), with the same date, fingerprinted.
FingerprintSensitivityWitness ==
    /\ pc = "fp_done"
    /\ ~SameParticipants(in1, in2)
    /\ in1.match_date = in2.match_date
    /\ Join("", SortStrings(PlayerIds(in1))) = Join("", SortStrings(PlayerIds(in2)))
    /\ out1 # out2

(***************************************************************************)
(* Classifier                                                              *)
(***************************************************************************)

\* [p['player_id'] for p in registered_players]
registered_player_ids(registered_players) ==
    [i \in DOMAIN registered_players |-> registered_players[i].player_id]

\* The match_type texts of the modelled matches.
KnownTypes == {"Custom Game", "CUSTOM", "custom", "Ranked 1v1", "automatch",
               "Custo m", "Unknown"}

\* 'custom' in match_type.lower(), computed once for each text.
HoldsCustom == [t \in KnownTypes |-> Contains("custom", Lower(t))]

\* 'custom' in match.get('match_type', '').lower()
is_custom(match) == HoldsCustom[match.match_type]

\* is_custom with the .lower() call left out.
is_custom_game_between_players_case_sensitive(match, registered_players) ==
    /\ Contains("custom", match.match_type)
    /\ \A i \in DOMAIN PlayerIds(match) :
           PlayerIds(match)[i] \in Range(registered_player_ids(registered_players))

\* is_custom and all(player_id in registered_player_ids for ... in match_players)
is_custom_game_between_players(match, registered_players) ==
    /\ is_custom(match)
    /\ \A i \in DOMAIN PlayerIds(match) :
           PlayerIds(match)[i] \in Range(registered_player_ids(registered_players))

\* is_not_custom and any(player_id in registered_player_ids for ... in match_players)
is_auto_match_with_registered_player(match, registered_players) ==
    /\ ~is_custom(match)
    /\ \E i \in DOMAIN PlayerIds(match) :
           PlayerIds(match)[i] \in Range(registered_player_ids(registered_players))

\* The if / elif / else of process_matches and check_for_new_games.
Route(match, registered_players) ==
    IF is_custom_game_between_players(match, registered_players) THEN "CustomGame"
    ELSE IF is_auto_match_with_registered_player(match, registered_players) THEN "AutoMatch"
    ELSE "Discard"

\* Most players on one side of a match drawn as input of the classifier.
MaxSide == 2

\* Participants of classified matches; "9" is never registered.
ClIds == {"1", "2", "3", "9"}
ClEntries == {Entry(id) : id \in ClIds}

\* match_type texts, and those among them that hold 'custom' in some case.
ClTypes == {"Custom Game", "CUSTOM", "custom", "Ranked 1v1", "automatch", "Custo m"}
CustomTypes == {"Custom Game", "CUSTOM", "custom"}

ClMatches ==
    { [match_id |-> "m", player_id |-> "1", match_type |-> t, match_date |-> "03-09",
       axis_players |-> ax, allies_players |-> al] :
        t \in ClTypes,
        ax \in SeqsUpTo(ClEntries, MaxSide),
        al \in SeqsUpTo(ClEntries, MaxSide) }

\* The rosters of registered players, each in one find() order.
ClRosters ==
    { <<>>, <<Entry("1")>>, <<Entry("2")>>, <<Entry("2"), Entry("1")>>,
      <<Entry("1"), Entry("3")>>, <<Entry("3"), Entry("2")>>,
      <<Entry("1"), Entry("2"), Entry("3")>>, <<Entry("3")>> }

InitClassify ==
    /\ pc = "cl_input"
    /\ in1 \in ClMatches
    /\ in2 = NoMatch
    /\ registered \in ClRosters
    /\ out1 = NoResult
    /\ out2 = NoResult
    /\ StoreIdle

Classify ==
    /\ pc = "cl_input"
    /\ out1' = << is_custom_game_between_players(in1, registered),
                  is_auto_match_with_registered_player(in1, registered),
                  Route(in1, registered) >>
    /\ pc' = "cl_done"
    /\ UNCHANGED <<in1, in2, out2, registered>>
    /\ UNCHANGED storeVars

NextClassify == Classify

SpecClassify == InitClassify /\ [][NextClassify]_vars

TrackedIds == {registered[i].player_id : i \in DOMAIN registered}

ScenarioA ==
    /\ in1.axis_players = <<Entry("1"), Entry("2")>>
    /\ in1.allies_players = <<Entry("3")>>
    /\ in1.match_type = "custom"
    /\ TrackedIds = {"1", "2", "3"}

ScenarioB ==
    /\ in1.axis_players = <<Entry("1")>>
    /\ in1.allies_players = <<Entry("9")>>
    /\ in1.match_type = "automatch"
    /\ TrackedIds = {"1", "2", "3"}

ScenarioC ==
    /\ in1.axis_players = <<Entry("1"), Entry("9")>>
    /\ in1.allies_players = <<Entry("2")>>
    /\ in1.match_type = "custom"
    /\ TrackedIds = {"1", "2", "3"}

\* C6: every match gets exactly one outcome: CustomGame iff match_type holds
\* 'custom' in any case and every participant id is tracked; AutoMatch iff it
\* does not hold 'custom' and some participant id is tracked; Discard
\* otherwise.  The two predicates are never both true.  Scenarios A, B and C
\* give CustomGame, AutoMatch and Discard.
ClassifierDefinition ==
    pc = "cl_done" =>
        LET custom == in1.match_type \in CustomTypes
            every  == AllIds(in1) \subseteq TrackedIds
            some   == AllIds(in1) \cap TrackedIds # {}
        IN  /\ out1[3] \in {"CustomGame", "AutoMatch", "Discard"}
            /\ (out1[3] = "CustomGame") <=> (custom /\ every)
            /\ (out1[3] = "AutoMatch") <=> (~custom /\ some)
            /\ (out1[3] = "Discard") <=> ~((custom /\ every) \/ (~custom /\ some))
            /\ out1[1] <=> (custom /\ every)
            /\ out1[2] <=> (~custom /\ some)
            /\ ~(out1[1] /\ out1[2])
            /\ ScenarioA => out1[3] = "CustomGame"
            /\ ScenarioB => out1[3] = "AutoMatch"
            /\ ScenarioC => out1[3] = "Discard"

\* C6 witness: Scenario C classified (a custom game with an untracked
\* participant, discarded).
ClassifierDefinitionWitness ==
    pc = "cl_done" /\ ScenarioC /\ out1[3] = "Discard"

(***************************************************************************)
(* Store and scheduler helpers shared by the three monitors                *)
(***************************************************************************)

\* BATCH_SIZE = 5
BATCH_SIZE == 5

Min(a, b) == IF a <= b THEN a ELSE b

\* A datetime is <<t>>, Python's None in its place is <<>>.
NoTime == <<>>
At(t) == <<t>>

\* player ids of a list of player documents
IdsOf(docs) == {docs[i].player_id : i \in DOMAIN docs}

\* A find_one that never finds a document.
find_one_nothing(collection, uid) == FALSE

\* collection.find_one({"unique_match_id": uid}) found a document
find_one(collection, uid) ==
    \E i \in DOMAIN collection : collection[i].unique_match_id = uid

\* The document insert_one stores: the match dict with the two keys the
\* monitor adds.
Stored(match, uid, t) ==
    [match_id |-> match.match_id, player_id |-> match.player_id,
     match_type |-> match.match_type, match_date |-> match.match_date,
     axis_players |-> match.axis_players, allies_players |-> match.allies_players,
     unique_match_id |-> uid, discovered_at |-> t]

\* Tuples compare as Python compares them: first components, then second.
KeyLess(k1, k2) == k1[1] < k2[1] \/ (k1[1] = k2[1] /\ k1[2] < k2[2])

RECURSIVE InsertByKey(_, _, _)
InsertByKey(x, sorted, key) ==
    IF Len(sorted) = 0 THEN <<x>>
    ELSE IF KeyLess(key[x.player_id], key[sorted[1].player_id]) THEN <<x>> \o sorted
    ELSE <<sorted[1]>> \o InsertByKey(x, Tail(sorted), key)

\* players.sort(key=...): stable, ascending by key.  The last element, the
\* key and the sorted rest are each computed once.
RECURSIVE SortByKey(_, _)
SortByKey(l, key) ==
    IF Len(l) = 0 THEN <<>>
    ELSE CHOOSE r \in {InsertByKey(x, s, k) :
                        x \in {l[Len(l)]}, k \in {key},
                        s \in {SortByKey(SubSeq(l, 1, Len(l) - 1), key)}} : TRUE

\* The loop without its "not in" test: every player gets v again.
InitCheckTimesForgetting(times, docs, v) == [id \in IdsOf(docs) |-> v]

\* The loop "if player_id not in self.last_check_times: ... = v".
InitCheckTimes(times, docs, v) ==
    [id \in (DOMAIN times) \cup IdsOf(docs) |->
        IF id \in DOMAIN times THEN times[id] ELSE v]

\* self.last_check_times[player_id] = datetime.now()
SetCheckTime(times, id, t) ==
    [x \in (DOMAIN times) \cup {id} |-> IF x = id THEN At(t) ELSE times[x]]

\* The match as extracted from the page of player p.
Observe(match, p) == [match EXCEPT !.player_id = p]
ObserveAll(matches, p) == [i \in DOMAIN matches |-> Observe(matches[i], p)]

(***************************************************************************)
(* Surroundings of the monitors                                            *)
(***************************************************************************)

\* Longest match list one page yields.
MaxMatches == 2

\* Most players that register in a run about the scheduler.
MaxPlayers == 6

\* Clock readings a run about the store, and one about the scheduler, spans.
StoreHorizon == 3
SchedHorizon == 12

\* The id of the i-th player to register: "1", "2", ...
IdOf(i) == Chr(48 + i)

\* A custom game between the players "1" and "2".
CustomMatch ==
    [match_id |-> "custom_1", player_id |-> "1", match_type |-> "Custom Game",
     match_date |-> "03-09", axis_players |-> <<Entry("1")>>,
     allies_players |-> <<Entry("2")>>]

\* A ranked match of player "1" against the unregistered "9".
AutoMatch ==
    [match_id |-> "auto_1", player_id |-> "1", match_type |-> "Ranked 1v1",
     match_date |-> "03-09", axis_players |-> <<Entry("1")>>,
     allies_players |-> <<Entry("9")>>]

\* CustomMatch as the structured data gives it when no type key is present:
\* match_data.get("type") or match_data.get("matchType") or "Unknown".
RetypedMatch ==
    [CustomMatch EXCEPT !.match_id = "next_1", !.match_type = "Unknown"]

\* A row of the rendered table: the roster entries carry player_name only.
TableMatch ==
    [match_id |-> "table_1_1", player_id |-> "1", match_type |-> "Custom Game",
     match_date |-> "03-09", axis_players |-> <<Entry(NoneV)>>,
     allies_players |-> <<Entry(NoneV)>>]

PkgSightings == {CustomMatch, AutoMatch, RetypedMatch, TableMatch}

\* A custom game as the structured data gives it when the match carries no
\* "players" and no "members": both rosters stay empty.
RosterlessMatch ==
    [match_id |-> "next_2", player_id |-> "1", match_type |-> "Custom Game",
     match_date |-> "03-10", axis_players |-> <<>>, allies_players |-> <<>>]

PkgSite == SeqsUpTo(PkgSightings, MaxMatches)

\* A run about the store ("store"): two players may register, pages are
\* rich.  A run about the scheduler ("sched"): many players, pages without
\* matches.
\* A run of main.py ("main"): as "store", the rosters of every match carry
\* ids (str(report.get("profile_id"))).
\* A run without end ("live"): one player more than a batch holds, pages
\* without matches or with one table row; the clock is kept as the order of
\* the recorded times, which is all the monitor reads of them.
\* A run about rosters ("roster"): as "store", pages list custom games with
\* and without participants.
Site(e) ==
    IF e = "store" THEN PkgSite
    ELSE IF e = "main" THEN SeqsUpTo({CustomMatch, AutoMatch}, MaxMatches)
    ELSE IF e = "live" THEN {<<>>, <<TableMatch>>}
    ELSE IF e = "roster" THEN SeqsUpTo({CustomMatch, RosterlessMatch}, MaxMatches)
    ELSE {<<>>}
Pool(e) ==
    IF e \in {"store", "main", "roster"} THEN <<"1", "2">>
    ELSE IF e = "live" THEN [i \in 1..(BATCH_SIZE + 1) |-> IdOf(i)]
    ELSE [i \in 1..MaxPlayers |-> IdOf(i)]
Horizon(e) ==
    IF e \in {"store", "roster"} THEN StoreHorizon
    ELSE IF e = "main" THEN StoreHorizon + 1
    ELSE IF e = "live" THEN BATCH_SIZE + 2
    ELSE SchedHorizon

\* The recorded times, each replaced by its rank among them.
TimesOf(times) == {times[id][1] : id \in {x \in DOMAIN times : times[x] # NoTime}}
Ranked(times) ==
    [id \in DOMAIN times |->
        IF times[id] = NoTime THEN NoTime
        ELSE At(Cardinality({t \in TimesOf(times) : t <= times[id][1]}))]

\* A history variable after a step: a run without end keeps no history.
Kept(e, old, new) == IF e = "live" THEN old ELSE new

\* The times and the clock a step leaves that read the clock as t.
Settle(e, times) == IF e = "live" THEN Ranked(times) ELSE times
ClockAfter(e, times, t) == IF e = "live" THEN Cardinality(TimesOf(times)) ELSE t

\* The matches process_matches can meet, and the fingerprint and the custom
\* test of each, computed once: the two are functions of the match alone.
KnownMatches ==
    {Observe(m, p) : m \in PkgSightings \cup {RosterlessMatch}, p \in {IdOf(i) : i \in 1..MaxPlayers}}
FingerprintOf == [m \in KnownMatches |-> generate_unique_match_id(m)]

(***************************************************************************)
(* process_matches (sejusaas/services/game_monitor.py)                     *)
(***************************************************************************)

\* The for loop of process_matches from the given accumulator: fingerprint,
\* classify, insert if absent.  A TypeError of the fingerprint leaves the
\* loop with what was inserted so far.
RECURSIVE ProcessFrom(_, _, _, _)
ProcessFrom(matches, registered_players, t, acc) ==
    IF Len(matches) = 0 \/ acc.raised THEN acc
    ELSE
        LET match == Head(matches)
            uid == FingerprintOf[match]
        IN  IF uid = TypeError THEN [acc EXCEPT !.raised = TRUE]
            ELSE IF is_custom_game_between_players(match, registered_players)
            THEN IF find_one(acc.custom_games, uid)
                 THEN ProcessFrom(Tail(matches), registered_players, t, acc)
                 ELSE ProcessFrom(Tail(matches), registered_players, t,
                          [acc EXCEPT !.custom_games = Append(@, Stored(match, uid, t)),
                                      !.new_custom_games = @ + 1])
            ELSE IF is_auto_match_with_registered_player(match, registered_players)
            THEN IF find_one(acc.auto_matches, uid)
                 THEN ProcessFrom(Tail(matches), registered_players, t, acc)
                 ELSE ProcessFrom(Tail(matches), registered_players, t,
                          [acc EXCEPT !.auto_matches = Append(@, Stored(match, uid, t)),
                                      !.new_auto_matches = @ + 1])
            ELSE ProcessFrom(Tail(matches), registered_players, t, acc)

\* process_matches writing the time of the call into what is stored.
process_matches_restamping(matches, registered_players, cg, am, t) ==
    ProcessFrom(matches, registered_players, t,
        [custom_games |-> [i \in DOMAIN cg |-> [cg[i] EXCEPT !.discovered_at = t]],
         auto_matches |-> [i \in DOMAIN am |-> [am[i] EXCEPT !.discovered_at = t]],
         new_custom_games |-> 0, new_auto_matches |-> 0, raised |-> FALSE])

\* process_matches(matches, registered_players) on the two collections.
process_matches(matches, registered_players, cg, am, t) ==
    ProcessFrom(matches, registered_players, t,
        [custom_games |-> cg, auto_matches |-> am,
         new_custom_games |-> 0, new_auto_matches |-> 0, raised |-> FALSE])

\* The players collection a process finds when it starts: the first players
\* of the pool, in the order they registered.
Prefixes(pool) == {SubSeq(pool, 1, k) : k \in 0..Len(pool)}
DocsOf(ids) == [i \in DOMAIN ids |-> Entry(ids[i])]

\* The ids of a list of player documents, in order.
IdList(docs) == [i \in DOMAIN docs |-> docs[i].player_id]

\* ceil(n / b)
CeilDiv(n, b) == (n + b - 1) \div b

\* The history keeps as many cycles as the largest roster needs batches.
Window == CeilDiv(MaxPlayers, BATCH_SIZE)

LastOf(l, k) == SubSeq(l, Len(l) - Min(Len(l), k) + 1, Len(l))

\* The history after a cycle started with this roster and batch.
CycleStarted(hist, docs, selected) ==
    LastOf(Append(hist, [roster |-> IdList(docs), batch |-> IdList(selected),
                         updated |-> {}]), Window)

\* The history after the last check time of player_id was set.
CycleUpdated(hist, player_id) ==
    [hist EXCEPT ![Len(hist)].updated = @ \cup {player_id}]

MonitorInit(e) ==
    /\ pc = "idle"
    /\ in1 = NoMatch
    /\ in2 = NoMatch
    /\ out1 = NoResult
    /\ out2 = NoResult
    /\ registered = <<>>
    /\ env = e
    /\ players \in {DocsOf(ids) : ids \in Prefixes(Pool(e))}
    /\ last_check_times = EmptyDict
    /\ custom_games = <<>>
    /\ auto_matches = <<>>
    /\ now = 0
    /\ batch = <<>>
    /\ idx = 1
    /\ ret = [op |-> "none"]
    /\ checked = {}
    /\ cycles = <<>>

\* A player is registered (players_collection gets one more document).  The
\* cycle reads the collection only when it starts, so a registration during a
\* cycle acts as one right after it.
RegisterPlayer ==
    /\ pc = "idle"
    /\ Len(players) < Len(Pool(env))
    /\ players' = Append(players, Entry(Pool(env)[Len(players) + 1]))
    /\ UNCHANGED <<pc, registered, last_check_times, custom_games, auto_matches,
                   now, batch, idx, env, ret, checked, cycles>>
    /\ UNCHANGED pureVars

(***************************************************************************)
(* sejusaas/services/game_monitor.py: GameMonitorService                   *)
(***************************************************************************)

\* The sort key of get_players_to_analyze: the last check time.
PkgSortKey(times) == [id \in DOMAIN times |-> <<0, times[id][1]>>]

\* get_players_to_analyze returning the whole sorted list.
PkgGetPlayersToAnalyzeNoSlice(docs, times, current_time) ==
    LET times1 == InitCheckTimes(times, docs, At(current_time))
    IN  [last_check_times |-> times1,
         batch |-> SortByKey(docs, PkgSortKey(times1))]

\* get_players_to_analyze: never-seen players get current_time, the players
\* are sorted by last check time, the first BATCH_SIZE are returned.
PkgGetPlayersToAnalyze(docs, times, current_time) ==
    CHOOSE g \in UNION {{[last_check_times |-> times1,
                           batch |-> SubSeq(sorted, 1, Min(Len(sorted), BATCH_SIZE))] :
                              sorted \in {SortByKey(docs, PkgSortKey(times1))}} :
                            times1 \in {InitCheckTimes(times, docs, At(current_time))}} : TRUE

\* check_for_new_games up to the for loop.  With no player it returns at
\* once; odd tells the calls of an unbroken run of such cycles apart.
PkgStartCycle ==
    /\ pc = "idle"
    /\ now < Horizon(env)
    /\ \E g \in {PkgGetPlayersToAnalyze(players, last_check_times, now + 1)} :
           /\ last_check_times' = Settle(env, g.last_check_times)
           /\ now' = ClockAfter(env, g.last_check_times, now + 1)
           /\ batch' = g.batch
           /\ idx' = 1
           /\ IF Len(g.batch) = 0
              THEN /\ pc' = "idle"
                   /\ registered' = registered
                   /\ ret' = [op |-> "check_for_new_games", roster |-> players,
                              batch |-> g.batch, retry |-> (ret.op = "cycle_error"),
                              odd |-> (ret.op = "check_for_new_games" /\ ~ret.odd),
                              before |-> <<custom_games, auto_matches,
                                           last_check_times>>]
              ELSE /\ pc' = "checking"
                   /\ registered' = players
                   /\ ret' = [op |-> "get_players_to_analyze", roster |-> players,
                              batch |-> g.batch, retry |-> (ret.op = "cycle_error")]
           /\ cycles' = Kept(env, cycles, CycleStarted(cycles, players, g.batch))
    /\ UNCHANGED <<players, custom_games, auto_matches, env, checked>>
    /\ UNCHANGED pureVars

\* One pass of the for loop: extract_player_matches (which returns [] when
\* the page fails), process_matches, the last check time.  An exception of
\* process_matches skips the rest of the pass.
PkgCheckPlayer ==
    /\ pc = "checking"
    /\ idx <= Len(batch)
    /\ now < Horizon(env)
    /\ \E fetch \in {"ok", "error"} : \E page \in Site(env) :
         LET player_id == batch[idx].player_id
             matches == IF fetch = "ok" THEN ObserveAll(page, player_id) ELSE <<>>
         IN  \E r \in {process_matches(matches, registered, custom_games,
                                       auto_matches, now + 1)} :
             /\ fetch = "error" => page = <<>>
             /\ custom_games' = r.custom_games
             /\ auto_matches' = r.auto_matches
             /\ \E times \in {IF r.raised THEN last_check_times
                               ELSE SetCheckTime(last_check_times, player_id, now + 1)} :
                    /\ last_check_times' = Settle(env, times)
                    /\ now' = ClockAfter(env, times, now + 1)
             /\ checked' = IF r.raised THEN checked
                           ELSE Kept(env, checked, checked \cup {player_id})
             /\ cycles' = IF r.raised THEN cycles
                          ELSE Kept(env, cycles, CycleUpdated(cycles, player_id))
             /\ ret' = [op |-> "check_player", player_id |-> player_id,
                        fetch |-> fetch, raised |-> r.raised]
    /\ idx' = idx + 1
    /\ UNCHANGED <<pc, registered, players, batch, env>>
    /\ UNCHANGED pureVars

\* The for loop is over: check_for_new_games returns and run() sleeps.
PkgEndCycle ==
    /\ pc = "checking"
    /\ idx > Len(batch)
    /\ pc' = "idle"
    /\ ret' = [op |-> "cycle_done"]
    /\ UNCHANGED <<registered, players, last_check_times, custom_games,
                   auto_matches, now, batch, idx, env, checked, cycles>>
    /\ UNCHANGED pureVars

\* process_matches called on its own, as the tests call it, with the players
\* collection as registered_players.
PkgProcessMatches ==
    /\ pc = "idle"
    /\ now < Horizon(env)
    /\ now' = now + 1
    /\ \E matches \in Site(env) :
         \E r \in {process_matches(matches, players, custom_games, auto_matches, now + 1)} :
             /\ Len(matches) > 0
             /\ custom_games' = r.custom_games
             /\ auto_matches' = r.auto_matches
             /\ ret' = [op |-> "process_matches", matches |-> matches,
                        registered_players |-> players, raised |-> r.raised,
                        result |-> <<r.new_custom_games, r.new_auto_matches>>,
                        inserted |-> <<Len(r.custom_games) - Len(custom_games),
                                       Len(r.auto_matches) - Len(auto_matches)>>,
                        again |-> /\ ret.op = "process_matches"
                                  /\ ret.matches = matches
                                  /\ ret.registered_players = players]
    /\ UNCHANGED <<pc, registered, players, last_check_times, batch, idx, env,
                   checked, cycles>>
    /\ UNCHANGED pureVars

\* ERROR_WAIT_TIME = 60
ERROR_WAIT_TIME == 60

\* check_for_new_games raising without catching.
PkgCycleErrorExits ==
    /\ pc = "idle"
    /\ now < Horizon(env)
    /\ now' = now + 1
    /\ pc' = "exited"
    /\ ret' = [op |-> "cycle_error", at |-> "exit", sleep_time |-> 0]
    /\ UNCHANGED <<registered, players, last_check_times, custom_games,
                   auto_matches, batch, idx, env, checked, cycles>>
    /\ UNCHANGED pureVars

\* check_for_new_games raises outside its for loop: players_collection.find
\* fails in get_players_to_analyze, or in the reading of all registered
\* players after it.  run() logs the error and sleeps ERROR_WAIT_TIME.
PkgCycleError ==
    /\ pc = "idle"
    /\ now < Horizon(env)
    /\ \E at \in {"get_players_to_analyze", "all_registered_players"} :
         \E times \in {IF at = "get_players_to_analyze" THEN last_check_times
                        ELSE PkgGetPlayersToAnalyze(players, last_check_times,
                                                    now + 1).last_check_times} :
             /\ at = "all_registered_players" => Len(players) > 0
             /\ last_check_times' = Settle(env, times)
             /\ now' = ClockAfter(env, times, now + 1)
             /\ ret' = [op |-> "cycle_error", at |-> at,
                        sleep_time |-> ERROR_WAIT_TIME]
    /\ UNCHANGED <<pc, registered, players, custom_games, auto_matches, batch,
                   idx, env, checked, cycles>>
    /\ UNCHANGED pureVars

InitPkg == MonitorInit("store") \/ MonitorInit("sched")

\* The cycles of runs in which the players collection is always read, and
\* process_matches called on its own.
NextPkg ==
    \/ RegisterPlayer
    \/ PkgStartCycle
    \/ PkgCheckPlayer
    \/ PkgEndCycle
    \/ PkgProcessMatches

SpecPkg == InitPkg /\ [][NextPkg]_vars

\* The loop running for ever: every step of run() that can be taken is
\* taken in the end (the sleeps and the page timeouts are finite); players
\* register at any time.
InitPkgLive == MonitorInit("live")

NextPkgLive ==
    \/ RegisterPlayer
    \/ PkgStartCycle
    \/ PkgCheckPlayer
    \/ PkgEndCycle
    \/ PkgCycleError

SpecPkgLive ==
    /\ InitPkgLive
    /\ [][NextPkgLive]_vars
    /\ WF_vars(PkgStartCycle)
    /\ WF_vars(PkgCheckPlayer)
    /\ WF_vars(PkgEndCycle)

(***************************************************************************)
(* Claims about sejusaas/services/game_monitor.py                          *)
(***************************************************************************)

UniqueIds(collection) ==
    \A i, j \in DOMAIN collection :
        collection[i].unique_match_id = collection[j].unique_match_id => i = j

\* C1: each collection holds at most one record per unique_match_id; a call
\* of process_matches returns the counts of the records it inserted; a second
\* call with the same match list inserts nothing and returns (0, 0).
IdempotentPersistence ==
    /\ UniqueIds(custom_games)
    /\ UniqueIds(auto_matches)
    /\ ret.op = "process_matches" =>
           /\ ~ret.raised
           /\ ret.result = ret.inserted
           /\ ret.again => (ret.inserted = <<0, 0>> /\ ret.result = <<0, 0>>)

\* The ids of a match with the empty string in every unresolved slot.
ResolvedIds(match) ==
    LET ids == PlayerIds(match)
    IN  [i \in DOMAIN ids |-> IF ids[i] = NoneV THEN "" ELSE ids[i]]

\* C5: a match with a roster entry without player_id still gets a
\* fingerprint, the one with the empty string in that slot, and
\* process_matches goes on to the remaining matches of the list.
UnresolvedParticipantFingerprint ==
    ret.op = "process_matches" =>
        /\ \A i \in DOMAIN ret.matches :
               generate_unique_match_id(ret.matches[i]) =
                   MD5(Join("-", SortStrings(ResolvedIds(ret.matches[i])))
                       \o "_" \o ret.matches[i].match_date)
        /\ ~ret.raised

\* C8: no unique_match_id is stored in both collections.
CollectionExclusivity ==
    \A i \in DOMAIN custom_games : \A j \in DOMAIN auto_matches :
        custom_games[i].unique_match_id # auto_matches[j].unique_match_id

\* C9: in the batch get_players_to_analyze returns, every never-checked
\* player precedes every checked player, the checked players are in ascending
\* order of last check time, and a never-checked player of the roster is in
\* the batch whenever a checked player is.
SchedulerOrdering ==
    ret.op = "get_players_to_analyze" =>
        LET ids == [i \in DOMAIN ret.batch |-> ret.batch[i].player_id]
        IN  /\ \A i, j \in DOMAIN ids :
                   (ids[i] \notin checked /\ ids[j] \in checked) => i < j
            /\ \A i, j \in DOMAIN ids :
                   (i < j /\ ids[i] \in checked /\ ids[j] \in checked)
                       => last_check_times[ids[i]][1] <= last_check_times[ids[j]][1]
            /\ \A p \in IdsOf(ret.roster) \ checked :
                   (\E j \in DOMAIN ids : ids[j] \in checked)
                       => \E i \in DOMAIN ids : ids[i] = p

BatchSelectionReadOnly ==
    [][\A p \in DOMAIN last_check_times' :
           (last_check_times'[p] # NoTime
               /\ (p \notin DOMAIN last_check_times
                      \/ last_check_times[p] # last_check_times'[p]))
           => (/\ pc = "checking"
               /\ idx <= Len(batch)
               /\ batch[idx].player_id = p
               /\ ret'.op = "check_player"
               /\ ~ret'.raised)]_vars

\* C14: every tracked player is selected into a batch again and again,
\* also when the checks of other players fail on every attempt and these
\* stay at the front of the order.
NoStarvation ==
    \A p \in Range(Pool("live")) :
        [](p \in IdsOf(players) => <>(pc = "checking" /\ p \in Range(IdList(batch))))

\* C16: run() never stops: after a cycle that raised, as after any other,
\* check_for_new_games is called again.
LoopNeverStops ==
    /\ []<><<PkgStartCycle>>_vars
    /\ [](pc \in {"idle", "checking"})
    /\ [](ret.op = "cycle_error" => ret.sleep_time = 60)

\* C16 witness: a cycle is running that started after a cycle that raised.
LoopNeverStopsWitness ==
    /\ pc = "checking"
    /\ ret.op = "get_players_to_analyze"
    /\ ret.retry

(***************************************************************************)
(* services/game_monitor.py: GameMonitorService                            *)
(***************************************************************************)

\* datetime.min, below every clock reading.
datetime_min == 0

\* str(n) of a one-digit number.
Str(n) == Chr(48 + n)

\* datetime.fromtimestamp(ts).isoformat(), for the first seconds of the epoch.
IsoFormat(ts) == "1970-01-01T00:00:0" \o Str(ts)

\* race_id 0 (Wehrmacht) and 3 (DAK) are the axis side.
IsAxisReport(report) == report.race_id \in {0, 3}
IsAlliesReport(report) == ~IsAxisReport(report)

PlayerInfo(reports) ==
    [i \in DOMAIN reports |-> Entry(Str(reports[i].profile_id))]

\* One entry of the structured data (__NEXT_DATA__) as a match of the page
\* of player_id.
SvcFromNextData(match_data, player_id, current_time) ==
    LET match_id == IF match_data.id # "" THEN match_data.id ELSE match_data.matchId
        ts == IF match_data.completiontime # 0 THEN match_data.completiontime
              ELSE IF match_data.startgametime # 0 THEN match_data.startgametime
              ELSE current_time
        match_date == IsoFormat(ts)
        reports == match_data.matchhistoryreportresults
        match_type == IF match_data.matchtype_id = 0 THEN "custom" ELSE "automatch"
    IN  [match_id |-> match_id, player_id |-> player_id,
         match_date |-> match_date, match_type |-> match_type,
         axis_players |-> PlayerInfo(SelectSeq(reports, IsAxisReport)),
         allies_players |-> PlayerInfo(SelectSeq(reports, IsAlliesReport)),
         is_custom |-> (match_type = "custom"),
         discovered_at |-> current_time,
         unique_match_id |-> MD5(match_date \o "_" \o match_id \o "_" \o match_type)]

\* A link of a table cell gives a roster entry when its href holds
\* /players/<digits>.
HasPlayerHref(link) == link.player_id # NoneV

\* One row of the rendered table as a match of the page of player_id.
SvcFromTableRow(row, player_id, current_time) ==
    LET date_text == row.date_text
        match_type == IF HoldsCustom[row.mode_cell] THEN "custom" ELSE "automatch"
    IN  [match_id |-> MD5(row), player_id |-> player_id,
         match_date |-> date_text, match_type |-> match_type,
         axis_players |-> SelectSeq(row.axis_links, HasPlayerHref),
         allies_players |-> SelectSeq(row.allies_links, HasPlayerHref),
         is_custom |-> (match_type = "custom"),
         discovered_at |-> current_time,
         unique_match_id |-> MD5(date_text \o "_" \o player_id \o "_" \o match_type)]

\* extract_matches_from_page: the structured data first, the table rows only
\* when the structured data gave no match.
SvcExtractMatches(page, player_id, current_time) ==
    IF Len(page.next_data) > 0
    THEN [i \in DOMAIN page.next_data |->
             SvcFromNextData(page.next_data[i], player_id, current_time)]
    ELSE [i \in DOMAIN page.rows |->
             SvcFromTableRow(page.rows[i], player_id, current_time)]

\* The for loop over the matches of one player: the collection is chosen by
\* match['is_custom'], the record is inserted when its unique_match_id is not
\* yet in that collection.
RECURSIVE SvcSaveFrom(_, _)
SvcSaveFrom(matches, acc) ==
    IF Len(matches) = 0 THEN acc
    ELSE
        LET match == Head(matches)
            unique_id == match.unique_match_id
        IN  IF match.is_custom
            THEN IF find_one(acc.custom_games, unique_id)
                 THEN SvcSaveFrom(Tail(matches), acc)
                 ELSE SvcSaveFrom(Tail(matches),
                          [acc EXCEPT !.custom_games = Append(@, match)])
            ELSE IF find_one(acc.auto_matches, unique_id)
                 THEN SvcSaveFrom(Tail(matches), acc)
                 ELSE SvcSaveFrom(Tail(matches),
                          [acc EXCEPT !.auto_matches = Append(@, match)])

\* The sort key of get_players_to_analyze:
\* (last_check is not None, last_check or datetime.min).
SvcSortKey(times) ==
    [id \in DOMAIN times |->
        IF times[id] = NoTime THEN <<0, datetime_min>> ELSE <<1, times[id][1]>>]

\* get_players_to_analyze taking players[:5] of the unsorted list.
SvcGetPlayersToAnalyzeUnsorted(docs, times) ==
    [last_check_times |-> InitCheckTimes(times, docs, NoTime),
     batch |-> SubSeq(docs, 1, Min(Len(docs), 5))]

\* get_players_to_analyze: never-seen players get None, the players are
\* sorted None first and then by last check time, players[:5] is returned.
SvcGetPlayersToAnalyze(docs, times) ==
    LET times1 == InitCheckTimes(times, docs, NoTime)
        sorted == SortByKey(docs, SvcSortKey(times1))
    IN  [last_check_times |-> times1,
         batch |-> SubSeq(sorted, 1, Min(Len(sorted), 5))]

\* A match of the site: its entry in the structured data and its row in the
\* rendered table.
SiteMatch(id, completiontime, matchtype_id, mode_cell, axis_id, allies_id) ==
    [data |-> [id |-> id, matchId |-> "", completiontime |-> completiontime,
               startgametime |-> 0,
               matchtype_id |-> matchtype_id,
               matchhistoryreportresults |->
                   << [profile_id |-> axis_id, race_id |-> 0],
                      [profile_id |-> allies_id, race_id |-> 1] >>],
     row |-> [date_text |-> "03-0" \o Str(completiontime), mode_cell |-> mode_cell,
              axis_links |-> <<Entry(Str(axis_id))>>,
              allies_links |-> <<Entry(Str(allies_id))>>]]

\* A custom game between the players 1 and 2, a custom game of player 1
\* with the unregistered 9, a ranked match of player 1 against 9.
SvcSiteMatches ==
    { SiteMatch("7", 5, 0, "Custom Game", 1, 2),
      SiteMatch("8", 6, 0, "Custom Game", 1, 9),
      SiteMatch("9", 7, 1, "Ranked 1v1", 1, 9) }

\* A page lists matches; the structured data is present or not.
PageOf(site_matches, structured) ==
    [next_data |-> IF structured
                   THEN [i \in DOMAIN site_matches |-> site_matches[i].data]
                   ELSE <<>>,
     rows |-> [i \in DOMAIN site_matches |-> site_matches[i].row]]

SvcSite(e) ==
    IF e = "store"
    THEN {PageOf(l, st) : l \in SeqsUpTo(SvcSiteMatches, MaxMatches), st \in BOOLEAN}
    ELSE {PageOf(<<>>, FALSE)}

\* check_for_new_games up to the for loop.
SvcStartCycle ==
    /\ pc = "idle"
    /\ now < Horizon(env)
    /\ now' = now + 1
    /\ LET g == SvcGetPlayersToAnalyze(players, last_check_times)
       IN  /\ last_check_times' = g.last_check_times
           /\ batch' = g.batch
           /\ idx' = 1
           /\ IF Len(g.batch) = 0
              THEN /\ pc' = "idle"
                   /\ registered' = registered
                   /\ ret' = [op |-> "check_for_new_games", roster |-> players,
                              batch |-> g.batch,
                              before |-> <<custom_games, auto_matches,
                                           last_check_times>>]
              ELSE /\ pc' = "checking"
                   /\ registered' = players
                   /\ ret' = [op |-> "get_players_to_analyze", roster |-> players,
                              batch |-> g.batch]
           /\ cycles' = CycleStarted(cycles, players, g.batch)
    /\ UNCHANGED <<players, custom_games, auto_matches, env, checked>>
    /\ UNCHANGED pureVars

\* The matches check_for_new_games hands to sheets_exporter.export_matches
\* for one player: it saves the matches itself and calls neither the
\* exporter nor process_matches, the one method that calls the exporter.
SvcExported(matches) == <<>>

\* One pass of the for loop: get_player_matches (which returns [] when the
\* page fails), the saving of each match, the last check time.
SvcCheckPlayer ==
    /\ pc = "checking"
    /\ idx <= Len(batch)
    /\ now < Horizon(env)
    /\ now' = now + 1
    /\ \E fetch \in {"ok", "error"} : \E page \in SvcSite(env) :
         LET player_id == batch[idx].player_id
             matches == IF fetch = "ok"
                        THEN SvcExtractMatches(page, player_id, now + 1)
                        ELSE <<>>
         IN  \E r \in {SvcSaveFrom(matches, [custom_games |-> custom_games,
                                              auto_matches |-> auto_matches])} :
             /\ fetch = "error" => page = PageOf(<<>>, FALSE)
             /\ custom_games' = r.custom_games
             /\ auto_matches' = r.auto_matches
             /\ last_check_times' = SetCheckTime(last_check_times, player_id, now + 1)
             /\ checked' = checked \cup {player_id}
             /\ cycles' = CycleUpdated(cycles, player_id)
             /\ ret' = [op |-> "check_player", player_id |-> player_id,
                        fetch |-> fetch, raised |-> FALSE,
                        new_custom_games |-> Len(r.custom_games) - Len(custom_games),
                        exported |-> SvcExported(matches)]
    /\ idx' = idx + 1
    /\ UNCHANGED <<pc, registered, players, batch, env>>
    /\ UNCHANGED pureVars

\* The for loop is over: check_for_new_games returns and run() sleeps.
SvcEndCycle ==
    /\ pc = "checking"
    /\ idx > Len(batch)
    /\ pc' = "idle"
    /\ ret' = [op |-> "cycle_done"]
    /\ UNCHANGED <<registered, players, last_check_times, custom_games,
                   auto_matches, now, batch, idx, env, checked, cycles>>
    /\ UNCHANGED pureVars

InitSvc == MonitorInit("store") \/ MonitorInit("sched")

NextSvc ==
    \/ RegisterPlayer
    \/ SvcStartCycle
    \/ SvcCheckPlayer
    \/ SvcEndCycle

SpecSvc == InitSvc /\ [][NextSvc]_vars

(***************************************************************************)
(* Claims about services/game_monitor.py                                   *)
(***************************************************************************)

\* C2: the monitor loop stores one record for one match: no two stored
\* records have the same participant ids and the same match date.
OneCanonicalRecord ==
    LET stored == custom_games \o auto_matches
    IN  \A i, j \in DOMAIN stored :
            (SameParticipants(stored[i], stored[j])
                 /\ stored[i].match_date = stored[j].match_date) => i = j

\* C7: every record of custom_games is a custom match all of whose
\* participants are tracked, every record of auto_matches is a non-custom
\* match with a tracked participant, and no custom match with an untracked
\* participant is stored.
RoutingFollowsClassifier ==
    /\ \A i \in DOMAIN custom_games :
           /\ is_custom(custom_games[i])
           /\ AllIds(custom_games[i]) \subseteq IdsOf(players)
    /\ \A i \in DOMAIN auto_matches :
           /\ ~is_custom(auto_matches[i])
           /\ AllIds(auto_matches[i]) \cap IdsOf(players) # {}

\* C12: a check whose fetch or extraction failed leaves the last check time
\* of its player as it was.
FailedCheckNotFresh ==
    [][(ret'.op = "check_player" /\ ret' # ret /\ ret'.fetch = "error")
           => last_check_times' = last_check_times]_vars

\* The latest ceil(N / B) cycles, when the history holds that many, the
\* roster of N > B players was the same in all of them and every player
\* selected in one of them before the latest had its last check time set.
FairWindow ==
    IF Len(cycles) = 0 THEN <<>>
    ELSE LET roster == cycles[Len(cycles)].roster
             w == CeilDiv(Len(roster), BATCH_SIZE)
             win == LastOf(cycles, w)
         IN  IF /\ Len(roster) > BATCH_SIZE
                /\ Len(cycles) >= w
                /\ \A i \in DOMAIN win : win[i].roster = roster
                /\ \A i \in 1..(Len(win) - 1) : Range(win[i].batch) \subseteq win[i].updated
             THEN win
             ELSE <<>>

\* C13: with a fixed roster of N > B players and the last check time of
\* every selected player set after its check, any ceil(N / B) consecutive
\* cycles select every player at least once.
SchedulerFairnessBound ==
    Len(FairWindow) > 0 =>
        UNION {Range(FairWindow[i].batch) : i \in DOMAIN FairWindow}
            = Range(cycles[Len(cycles)].roster)

\* C13 witness: the second of two cycles over six players selected the
\* player the first had left out.
SchedulerFairnessBoundWitness ==
    /\ Len(FairWindow) = 2
    /\ \E p \in Range(FairWindow[2].batch) : p \notin Range(FairWindow[1].batch)

(***************************************************************************)
(* main.py: COH3StatsAnalyzer and the monitor loop of main()               *)
(***************************************************************************)

\* timedelta(hours=1), in clock readings
OneHour == 1

\* The sort key of get_players_to_analyze: the last check time.
MainSortKey(times) == [id \in DOMAIN times |-> <<0, times[id][1]>>]

\* get_players_to_analyze: never-seen players get current_time - 1 hour, the
\* players are sorted by last check time, the first BATCH_SIZE are returned.
MainGetPlayersToAnalyze(docs, times, current_time) ==
    LET times1 == InitCheckTimes(times, docs, At(current_time - OneHour))
        sorted == SortByKey(docs, MainSortKey(times1))
    IN  [last_check_times |-> times1,
         batch |-> SubSeq(sorted, 1, Min(Len(sorted), BATCH_SIZE))]

\* The for loop over the matches of one player: fingerprint, classify,
\* find_one, insert_one, the steps of process_matches in the same order.
\* With the store down the first find_one raises, and nothing in
\* check_for_new_games catches it.
MainSave(matches, registered_players, cg, am, t, store) ==
    IF store = "down"
           /\ \E i \in DOMAIN matches : Route(matches[i], registered_players) # "Discard"
    THEN [custom_games |-> cg, auto_matches |-> am,
          new_custom_games |-> 0, new_auto_matches |-> 0, raised |-> TRUE]
    ELSE process_matches(matches, registered_players, cg, am, t)

\* check_for_new_games up to the for loop.
MainStartCycle ==
    /\ pc = "idle"
    /\ now < Horizon(env)
    /\ now' = now + 1
    /\ \E g \in {MainGetPlayersToAnalyze(players, last_check_times, now + 1)} :
           /\ last_check_times' = g.last_check_times
           /\ batch' = g.batch
           /\ idx' = 1
           /\ pc' = IF Len(g.batch) = 0 THEN "idle" ELSE "checking"
           /\ registered' = IF Len(g.batch) = 0 THEN registered ELSE players
           /\ ret' = [op |-> "get_players_to_analyze", roster |-> players,
                      batch |-> g.batch]
    /\ UNCHANGED <<players, custom_games, auto_matches, env, checked, cycles>>
    /\ UNCHANGED pureVars

\* One pass of the for loop over the batch: get_player_matches (which sets
\* the last check time, also when the download failed and the list is empty)
\* and the loop over the matches.  An exception of that loop leaves
\* check_for_new_games; the while loop of main() logs it, sleeps
\* ERROR_WAIT_TIME and starts the next cycle.
MainCheckPlayer ==
    /\ pc = "checking"
    /\ idx <= Len(batch)
    /\ now < Horizon(env)
    /\ now' = now + 1
    /\ \E fetch \in {"ok", "error"} : \E page \in Site(env) :
       \E store \in {"up", "down"} :
         LET player_id == batch[idx].player_id
             matches == IF fetch = "ok" THEN ObserveAll(page, player_id) ELSE <<>>
         IN  \E r \in {MainSave(matches, registered, custom_games, auto_matches,
                                now + 1, store)} :
             /\ fetch = "error" => page = <<>>
             /\ store = "down" => r.raised
             /\ custom_games' = r.custom_games
             /\ auto_matches' = r.auto_matches
             /\ last_check_times' = SetCheckTime(last_check_times, player_id, now + 1)
             /\ pc' = IF r.raised THEN "idle" ELSE "checking"
             /\ ret' = IF r.raised
                       THEN [op |-> "cycle_error", at |-> "check_player",
                             player_id |-> player_id, fetch |-> fetch,
                             raised |-> TRUE, sleep_time |-> ERROR_WAIT_TIME]
                       ELSE [op |-> "check_player", player_id |-> player_id,
                             fetch |-> fetch, raised |-> FALSE]
    /\ idx' = idx + 1
    /\ UNCHANGED <<registered, players, batch, env, checked, cycles>>
    /\ UNCHANGED pureVars

\* The for loop is over: check_for_new_games returns and main() sleeps.
MainEndCycle ==
    /\ pc = "checking"
    /\ idx > Len(batch)
    /\ pc' = "idle"
    /\ ret' = [op |-> "cycle_done"]
    /\ UNCHANGED <<registered, players, last_check_times, custom_games,
                   auto_matches, now, batch, idx, env, checked, cycles>>
    /\ UNCHANGED pureVars

InitMain == MonitorInit("main")

NextMain ==
    \/ RegisterPlayer
    \/ MainStartCycle
    \/ MainCheckPlayer
    \/ MainEndCycle

SpecMain == InitMain /\ [][NextMain]_vars

\* s is a prefix of t
IsPrefix(s, t) == Len(s) <= Len(t) /\ SubSeq(t, 1, Len(s)) = s

\* C15: a cycle under way goes back to idle only when every player of the
\* batch had its pass, whatever was raised for one of them, and what was
\* stored for the earlier players stays stored.
PerPlayerFailureIsolated ==
    [][pc = "checking" =>
          /\ pc' = "idle" => idx' > Len(batch')
          /\ IsPrefix(custom_games, custom_games')
          /\ IsPrefix(auto_matches, auto_matches')]_vars

(***************************************************************************)
(* SpecSleep: the wait between two cycles, applied to drawn durations      *)
(***************************************************************************)

\* The floor in max(CHECK_INTERVAL - execution_time, 60)
SleepFloor == 60

\* max(a, b) of Python: the first of the largest arguments.
Max(a, b) == IF b > a THEN b ELSE a

\* sleep_time as run() computes it after a cycle that returned.
SleepTimeNoFloor(check_interval, execution_time) ==
    check_interval - execution_time
SleepTime(check_interval, execution_time) ==
    Max(check_interval - execution_time, SleepFloor)

\* CHECK_INTERVAL is read from the environment (any integer, 900 by
\* default); durations are taken in whole seconds.
MaxIntervalSteps == 30
MaxElapsedSteps == 64
CheckIntervals == {30 * k : k \in -1..MaxIntervalSteps}
ExecutionTimes == {15 * k : k \in 0..MaxElapsedSteps}

InitSleep ==
    /\ pc = "sleep_input"
    /\ in1 \in CheckIntervals
    /\ in2 \in ExecutionTimes
    /\ out1 = NoResult
    /\ out2 = NoResult
    /\ registered = <<>>
    /\ StoreIdle

ComputeSleep ==
    /\ pc = "sleep_input"
    /\ out1' = SleepTime(in1, in2)
    /\ pc' = "sleep_done"
    /\ UNCHANGED <<in1, in2, out2, registered>>
    /\ UNCHANGED storeVars

NextSleep == ComputeSleep

SpecSleep == InitSleep /\ [][NextSleep]_vars

\* C17: after a cycle that took in2 seconds with a check interval of in1
\* seconds the loop sleeps max(in1 - in2, 60) seconds: never less than 60,
\* and in1 - in2 whenever that is at least 60.
InterCycleWait ==
    pc = "sleep_done" =>
        /\ out1 >= 60
        /\ in1 - in2 >= 60 => out1 = in1 - in2
        /\ in1 - in2 < 60 => out1 = 60

\* C17 witness: a cycle that took longer than the check interval, followed
\* by the wait of 60 seconds.
InterCycleWaitWitness ==
    pc = "sleep_done" /\ in1 > 0 /\ in2 > in1 /\ out1 = 60

(***************************************************************************)
(* Claims about the stored matches                                         *)
(***************************************************************************)

\* C18: every step leaves each stored record as it is and where it is: the
\* collections only grow at their end, also when a stored match is seen
\* again.
StoredMatchesImmutable ==
    [][/\ IsPrefix(custom_games, custom_games')
       /\ IsPrefix(auto_matches, auto_matches')]_vars

\* C18 witness: process_matches has run again on matches that are stored,
\* at a later time, and inserted nothing.
StoredMatchesImmutableWitness ==
    /\ ret.op = "process_matches"
    /\ ret.again
    /\ ret.inserted = <<0, 0>>
    /\ \E i \in DOMAIN custom_games : custom_games[i].discovered_at < now

(***************************************************************************)
(* SpecExtract: the three extraction pipelines applied to a drawn page     *)
(***************************************************************************)

\* Most entries of the structured data, data rows of the table and match
\* divs of a drawn page.
MaxEntries == 2
MaxRows == 2
MaxDivs == 1

\* A page, as far as the pipelines tell pages apart:
\*   table    a table element is in the page;
\*   blob     the __NEXT_DATA__ script: "absent", "unparsable" (not JSON),
\*            "misshapen" (JSON in which props is not an object, so that
\*            next_data.get("props", {}).get raises) or "ok";
\*   entries  the match list of an "ok" blob: an entry is "usable" or
\*            "broken" (not an object: match_data.get raises);
\*   rows     the data rows of the table, with six cells or with three;
\*   divs     the divs whose class holds 'match'.
Pages ==
    {[table |-> t, blob |-> b, entries |-> es, rows |-> rs, divs |-> ds] :
        t \in BOOLEAN, b \in {"absent", "unparsable", "misshapen", "ok"},
        es \in SeqsUpTo({"usable", "broken"}, MaxEntries),
        rs \in SeqsUpTo({"cells6", "cells3"}, MaxRows),
        ds \in SeqsUpTo({"div"}, MaxDivs)}

\* A page that can exist: entries come with a parsed blob, rows with a table.
IsPage(page) ==
    /\ page.blob # "ok" => page.entries = <<>>
    /\ ~page.table => page.rows = <<>>

\* The records a strategy appends: one for each item of a kind it accepts,
\* in the order of the items.
Numbered(items, strategy) ==
    [i \in DOMAIN items |-> [strategy |-> strategy, index |-> i, kind |-> items[i]]]
Accepted(record) == record.kind \in {"usable", "cells6", "div"}
AcceptedByHtml(record) == record.kind \in {"usable", "cells6", "cells3", "div"}
Records(items, strategy) == SelectSeq(Numbered(items, strategy), Accepted)
HtmlRecords(items, strategy) == SelectSeq(Numbered(items, strategy), AcceptedByHtml)

\* What a pipeline did: the strategies that ran, in order, for each of them
\* the records it produced and whether an error left it (an error of one
\* item is caught at the item and is none), the list returned, and whether
\* an exception went to the caller.
Outcome(ran, outputs, errors, result, raised) ==
    [ran |-> ran, outputs |-> outputs, errors |-> errors, result |-> result,
     raised |-> raised]

\* extract_from_html.py, extract_matches_from_html: a match list that is
\* found and not empty is processed and returned, whatever came out of it;
\* otherwise the tables are read, and the divs when the tables gave nothing.
extract_matches_from_html(page) ==
    LET structured == HtmlRecords(page.entries, "structured")
        table == HtmlRecords(page.rows, "table")
        heuristic == HtmlRecords(page.divs, "heuristic")
        failed == page.blob \in {"unparsable", "misshapen"}
    IN  IF Len(page.entries) > 0
        THEN Outcome(<<"structured">>, <<structured>>, <<FALSE>>, structured, FALSE)
        ELSE IF Len(table) > 0
        THEN Outcome(<<"structured", "table">>, <<structured, table>>,
                     <<failed, FALSE>>, table, FALSE)
        ELSE Outcome(<<"structured", "table", "heuristic">>,
                     <<structured, table, heuristic>>,
                     <<failed, FALSE, FALSE>>, heuristic, FALSE)

\* sejusaas/services/game_monitor.py, extract_matches_from_page:
\* wait_for_selector("table") stands before every try; the structured data
\* is read inside a try; the table rows are read when matches is empty.
PkgExtractMatchesFromPage(page) ==
    LET structured == Records(page.entries, "structured")
        table == Records(page.rows, "table")
        failed == page.blob = "misshapen"
    IN  IF ~page.table
        THEN Outcome(<<>>, <<>>, <<>>, <<>>, TRUE)
        ELSE IF Len(structured) > 0
        THEN Outcome(<<"structured">>, <<structured>>, <<FALSE>>, structured, FALSE)
        ELSE Outcome(<<"structured", "table">>, <<structured, table>>,
                     <<failed, FALSE>>, table, FALSE)

\* services/game_monitor.py, extract_matches_from_page: one try around the
\* whole body, "return []" in its except.
SvcExtractMatchesFromPage(page) ==
    LET structured == Records(page.entries, "structured")
        table == Records(page.rows, "table")
    IN  IF ~page.table
        THEN Outcome(<<>>, <<>>, <<>>, <<>>, FALSE)
        ELSE IF page.blob = "misshapen"
        THEN Outcome(<<"structured">>, <<structured>>, <<TRUE>>, <<>>, FALSE)
        ELSE IF Len(structured) > 0
        THEN Outcome(<<"structured">>, <<structured>>, <<FALSE>>, structured, FALSE)
        ELSE Outcome(<<"structured", "table">>, <<structured, table>>,
                     <<FALSE, FALSE>>, table, FALSE)

InitExtract ==
    /\ pc = "ex_input"
    /\ in1 \in Pages
    /\ IsPage(in1)
    /\ in2 = NoMatch
    /\ out1 = NoResult
    /\ out2 = NoResult
    /\ registered = <<>>
    /\ StoreIdle

ExtractFromHtml ==
    /\ pc = "ex_input"
    /\ out1' = extract_matches_from_html(in1)
    /\ out2' = "html"
    /\ pc' = "ex_done"
    /\ UNCHANGED <<in1, in2, registered>>
    /\ UNCHANGED storeVars

PkgExtract ==
    /\ pc = "ex_input"
    /\ out1' = PkgExtractMatchesFromPage(in1)
    /\ out2' = "pkg"
    /\ pc' = "ex_done"
    /\ UNCHANGED <<in1, in2, registered>>
    /\ UNCHANGED storeVars

SvcExtract ==
    /\ pc = "ex_input"
    /\ out1' = SvcExtractMatchesFromPage(in1)
    /\ out2' = "svc"
    /\ pc' = "ex_done"
    /\ UNCHANGED <<in1, in2, registered>>
    /\ UNCHANGED storeVars

NextExtract ==
    \/ ExtractFromHtml
    \/ PkgExtract
    \/ SvcExtract

SpecExtract == InitExtract /\ [][NextExtract]_vars

(***************************************************************************)
(* Claims about the extraction pipelines                                   *)
(***************************************************************************)

StrategyOrder == <<"structured", "table", "heuristic">>

\* The strategies that ran before the k-th one and produced no record.
EarlierGaveNothing(o, k) ==
    \A j \in 1..(k - 1) : j \in DOMAIN o.ran /\ Len(o.outputs[j]) = 0

\* The output of the first strategy that produced a record, or the empty
\* list when none did.
FirstNonEmpty(o) ==
    IF \E j \in DOMAIN o.ran : Len(o.outputs[j]) > 0
    THEN o.outputs[CHOOSE j \in DOMAIN o.ran :
                       /\ Len(o.outputs[j]) > 0
                       /\ \A i \in 1..(j - 1) : Len(o.outputs[i]) = 0]
    ELSE <<>>

\* C19: a pipeline that returns has run its strategies in the order
\* structured data, table, heuristic scan; each of the three ran exactly
\* when all before it ran and produced no record (so the table is read when
\* a match list was found and gave no usable record), and the list returned
\* is the output of the first strategy that produced one.
ExtractionStrategyOrder ==
    (pc = "ex_done" /\ ~out1.raised) =>
        /\ out1.ran = SubSeq(StrategyOrder, 1, Len(out1.ran))
        /\ \A k \in DOMAIN StrategyOrder :
               (k \in DOMAIN out1.ran) <=> EarlierGaveNothing(out1, k)
        /\ out1.result = FirstNonEmpty(out1)

\* C20: extract_matches_from_page raises nothing to its caller, whatever
\* the page; a strategy left by an error counts for no record and is
\* followed by the next strategy; the list returned is empty when no
\* strategy produced a record.
ExtractionFailurePolicy ==
    (pc = "ex_done" /\ out2 \in {"pkg", "svc"}) =>
        /\ ~out1.raised
        /\ \A j \in DOMAIN out1.ran :
               out1.errors[j] =>
                   /\ Len(out1.outputs[j]) = 0
                   /\ (j = 1 => 2 \in DOMAIN out1.ran)
        /\ (\A j \in DOMAIN out1.ran : Len(out1.outputs[j]) = 0)
               => out1.result = <<>>

(***************************************************************************)
(* SpecRace: check_for_new_games and force_check_player of main.py on the  *)
(* same store, their find_one and insert_one calls interleaved             *)
(***************************************************************************)

\* Writer 1 is the pass of check_for_new_games over the page of player "1",
\* writer 2 is force_check_player("2", ...).
RaceWriters == {1, 2}

\* The matches the page of a writer's player lists.
RacePages(w) ==
    IF w = 1 THEN Site("main") ELSE SeqsUpTo({CustomMatch}, MaxMatches)

\* A writer before its first match: "for match in matches" at index at,
\* before find_one ("find") or between find_one and insert_one ("insert").
Writer(matches) == [matches |-> matches, at |-> 1, phase |-> "find"]

InitRace ==
    /\ pc = "racing"
    /\ in1 = NoMatch
    /\ in2 = NoMatch
    /\ out1 = NoResult
    /\ out2 = NoResult
    /\ players = DocsOf(<<"1", "2">>)
    /\ registered = players
    /\ last_check_times = EmptyDict
    /\ custom_games = <<>>
    /\ auto_matches = <<>>
    /\ now = 0
    /\ batch = <<>>
    /\ idx = 1
    /\ env = "main"
    /\ \E p1 \in RacePages(1), p2 \in RacePages(2) :
           ret = [op |-> "race",
                  writers |-> <<Writer(ObserveAll(p1, "1")),
                                Writer(ObserveAll(p2, "2"))>>]
    /\ checked = {}
    /\ cycles = <<>>

\* The loop body up to "if not existing_match": fingerprint, classifier,
\* find_one on the collection the classifier names.
WriterFind(w) ==
    /\ pc = "racing"
    /\ ret.writers[w].phase = "find"
    /\ ret.writers[w].at <= Len(ret.writers[w].matches)
    /\ \E match \in {ret.writers[w].matches[ret.writers[w].at]} :
       \E route \in {Route(match, registered)} :
       \E existing_match \in
              {IF route = "CustomGame" THEN find_one(custom_games, FingerprintOf[match])
               ELSE IF route = "AutoMatch" THEN find_one(auto_matches, FingerprintOf[match])
               ELSE TRUE} :
           ret' = IF existing_match
                  THEN [ret EXCEPT !.writers[w].at = @ + 1]
                  ELSE [ret EXCEPT !.writers[w].phase = "insert"]
    /\ UNCHANGED <<pc, registered, players, last_check_times, custom_games,
                   auto_matches, now, batch, idx, env, checked, cycles>>
    /\ UNCHANGED pureVars

\* match['discovered_at'] = datetime.now(); collection.insert_one(match)
WriterInsert(w) ==
    /\ pc = "racing"
    /\ ret.writers[w].phase = "insert"
    /\ now' = now + 1
    /\ \E match \in {ret.writers[w].matches[ret.writers[w].at]} :
       \E doc \in {Stored(match, FingerprintOf[match], now + 1)} :
           IF Route(match, registered) = "CustomGame"
           THEN /\ custom_games' = Append(custom_games, doc)
                /\ auto_matches' = auto_matches
           ELSE /\ auto_matches' = Append(auto_matches, doc)
                /\ custom_games' = custom_games
    /\ ret' = [ret EXCEPT !.writers[w].at = @ + 1, !.writers[w].phase = "find"]
    /\ UNCHANGED <<pc, registered, players, last_check_times, batch, idx, env,
                   checked, cycles>>
    /\ UNCHANGED pureVars

NextRace ==
    \/ \E w \in RaceWriters : WriterFind(w)
    \/ \E w \in RaceWriters : WriterInsert(w)

SpecRace == InitRace /\ [][NextRace]_vars

\* C21: whatever the interleaving of the find_one and insert_one calls of
\* two writers, each collection holds at most one record per
\* unique_match_id.
AtomicUpsertByFingerprint ==
    pc = "racing" => (UniqueIds(custom_games) /\ UniqueIds(auto_matches))

(***************************************************************************)
(* Claims about the export of services/game_monitor.py                     *)
(***************************************************************************)

\* C22: the matches handed to the exporter for a checked player are the
\* custom games that check inserted, in the order of their insertion:
\* every one of them, no record stored earlier and no auto match.
ExportEmission ==
    ret.op = "check_player" =>
        ret.exported = SubSeq(custom_games,
                              Len(custom_games) - ret.new_custom_games + 1,
                              Len(custom_games))

(***************************************************************************)
(* SpecResult: match_result as each strategy derives it                    *)
(***************************************************************************)

\* Most reports in the matchhistoryreportresults of a drawn match.
MaxReports == 2

\* report.get("resulttype", -1): 1 is a win, 0 a loss; 4 stands for the
\* other values of the site, -1 for a report without the key.
ResultTypes == {-1, 0, 1, 4}

ResultReports ==
    SeqsUpTo({[profile_id |-> p, resulttype |-> r] : p \in {1, 2}, r \in ResultTypes},
             MaxReports)

\* The class of the indicator div of the result cell, "" when the cell has
\* no such div.
ResultDivs == {"", "win-indicator", "loss-indicator"}

\* The second loop over matchhistoryreportresults: the last report of the
\* player decides.
RECURSIVE SvcResultFrom(_, _, _)
SvcResultFrom(reports, player_id, result) ==
    IF Len(reports) = 0 THEN result
    ELSE SvcResultFrom(Tail(reports), player_id,
             IF Str(Head(reports).profile_id) = player_id
             THEN IF Head(reports).resulttype = 1 THEN "victory"
                  ELSE IF Head(reports).resulttype = 0 THEN "defeat"
                  ELSE "unknown"
             ELSE result)

\* result of the structured data strategy
SvcResultFromNextData(reports, player_id) ==
    SvcResultFrom(reports, player_id, "unknown")

\* result of the table strategy:
\* "victory" if result_div and "win-indicator" in class else "defeat"
SvcResultFromTable(result_div) ==
    IF result_div # "" /\ Contains("win-indicator", result_div)
    THEN "victory" ELSE "defeat"

\* match_result of extract_match_data_from_table
TableMatchResult(result_div) ==
    IF result_div # "" /\ result_div = "win-indicator"
    THEN "Victory" ELSE "Defeat"

InitResult ==
    /\ pc = "res_input"
    /\ in1 \in {[reports |-> rs, player_id |-> id] :
                   rs \in ResultReports, id \in {"1", "2"}}
    /\ in2 \in ResultDivs
    /\ out1 = NoResult
    /\ out2 = NoResult
    /\ registered = <<>>
    /\ StoreIdle

ResultFromNextData ==
    /\ pc = "res_input"
    /\ out1' = SvcResultFromNextData(in1.reports, in1.player_id)
    /\ out2' = "structured"
    /\ pc' = "res_done"
    /\ UNCHANGED <<in1, in2, registered>>
    /\ UNCHANGED storeVars

ResultFromTable ==
    /\ pc = "res_input"
    /\ out1' = SvcResultFromTable(in2)
    /\ out2' = "table"
    /\ pc' = "res_done"
    /\ UNCHANGED <<in1, in2, registered>>
    /\ UNCHANGED storeVars

ResultFromTestTable ==
    /\ pc = "res_input"
    /\ out1' = Lower(TableMatchResult(in2))
    /\ out2' = "test_table"
    /\ pc' = "res_done"
    /\ UNCHANGED <<in1, in2, registered>>
    /\ UNCHANGED storeVars

NextResult ==
    \/ ResultFromNextData
    \/ ResultFromTable
    \/ ResultFromTestTable

SpecResult == InitResult /\ [][NextResult]_vars

\* The player's reports that say how the match ended for the player.
ReportedResults ==
    {in1.reports[i].resulttype : i \in {j \in DOMAIN in1.reports :
        /\ Str(in1.reports[j].profile_id) = in1.player_id
        /\ in1.reports[j].resulttype \in {0, 1}}}

\* The result indicators the strategy that ran had before it.
WinIndicator ==
    IF out2 = "structured" THEN 1 \in ReportedResults ELSE in2 = "win-indicator"
LossIndicator ==
    IF out2 = "structured" THEN 0 \in ReportedResults ELSE in2 = "loss-indicator"

\* C23: whatever the strategy, the result is one of victory, defeat and
\* unknown; victory only with a win indicator, defeat only with a loss
\* indicator, unknown when there is neither.
ResultFromIndicator ==
    pc = "res_done" =>
        /\ out1 \in {"victory", "defeat", "unknown"}
        /\ out1 = "victory" => WinIndicator
        /\ out1 = "defeat" => LossIndicator
        /\ (~WinIndicator /\ ~LossIndicator) => out1 = "unknown"

(***************************************************************************)
(* SpecPlayers: add_player and force_check_player of main.py on the        *)
(* players collection                                                      *)
(***************************************************************************)

\* Clock readings of a run about the players collection.
PlayersHorizon == 4

\* The names a caller may give a player.
PlayerNames == {"seju", "fumi"}

PlayerData(player_id, player_name, t) ==
    [player_id |-> player_id, player_name |-> player_name, added_at |-> t]

\* The first document with this player_id, 0 when there is none.
FirstWithId(players_collection, player_id) ==
    IF \E i \in DOMAIN players_collection :
           players_collection[i].player_id = player_id
    THEN CHOOSE i \in DOMAIN players_collection :
             /\ players_collection[i].player_id = player_id
             /\ \A j \in 1..(i - 1) : players_collection[j].player_id # player_id
    ELSE 0

\* insert_one(player_data): a document more, whatever the collection holds.
add_player_inserting(players_collection, player_id, player_name, t) ==
    Append(players_collection, PlayerData(player_id, player_name, t))

\* update_one({"player_id": player_id}, {"$set": player_data}, upsert=True):
\* the first document of the player gets the fields, a document is inserted
\* only when the player has none.
add_player(players_collection, player_id, player_name, t) ==
    IF FirstWithId(players_collection, player_id) = 0
    THEN Append(players_collection, PlayerData(player_id, player_name, t))
    ELSE [players_collection EXCEPT
              ![FirstWithId(players_collection, player_id)] =
                  PlayerData(player_id, player_name, t)]

InitPlayers ==
    /\ pc = "players"
    /\ in1 = NoMatch
    /\ in2 = NoMatch
    /\ out1 = NoResult
    /\ out2 = NoResult
    /\ registered = <<>>
    /\ players = <<>>
    /\ last_check_times = EmptyDict
    /\ custom_games = <<>>
    /\ auto_matches = <<>>
    /\ now = 0
    /\ batch = <<>>
    /\ idx = 1
    /\ env = "main"
    /\ ret = [op |-> "none"]
    /\ checked = {}
    /\ cycles = <<>>

\* add_player(player_id, player_name)
AddPlayer ==
    /\ pc = "players"
    /\ now < PlayersHorizon
    /\ now' = now + 1
    /\ \E player_id \in {"1", "2"}, player_name \in PlayerNames :
           /\ players' = add_player(players, player_id, player_name, now + 1)
           /\ ret' = [op |-> "add_player", player_id |-> player_id,
                      player_registered |->
                          (FirstWithId(players, player_id) # 0)]
    /\ UNCHANGED <<pc, registered, last_check_times, custom_games,
                   auto_matches, batch, idx, env, checked, cycles>>
    /\ UNCHANGED pureVars

\* force_check_player(player_id, player_name): the player is registered
\* when the collection does not hold it, the list is read again, the page is
\* fetched and its matches are saved as check_for_new_games saves them.
ForceCheckPlayer ==
    /\ pc = "players"
    /\ now < PlayersHorizon
    /\ now' = now + 1
    /\ \E player_id \in {"1", "2"}, player_name \in PlayerNames :
       \E fetch \in {"ok", "error"} : \E page \in Site(env) :
       \E store \in {"up", "down"} :
       \E player_registered \in {FirstWithId(players, player_id) # 0} :
       \E all_registered_players \in
              {IF player_registered THEN players
               ELSE add_player(players, player_id, player_name, now + 1)} :
       \E matches \in {IF fetch = "ok" THEN ObserveAll(page, player_id) ELSE <<>>} :
       \E r \in {MainSave(matches, DocsOf(IdList(all_registered_players)),
                          custom_games, auto_matches, now + 1, store)} :
           /\ fetch = "error" => page = <<>>
           /\ store = "down" => r.raised
           /\ players' = all_registered_players
           /\ registered' = DocsOf(IdList(all_registered_players))
           /\ custom_games' = r.custom_games
           /\ auto_matches' = r.auto_matches
           /\ ret' = [op |-> "force_check_player", player_id |-> player_id,
                      player_registered |-> player_registered,
                      raised |-> r.raised]
    /\ UNCHANGED <<pc, last_check_times, batch, idx, env, checked, cycles>>
    /\ UNCHANGED pureVars

NextPlayers ==
    \/ AddPlayer
    \/ ForceCheckPlayer

SpecPlayers == InitPlayers /\ [][NextPlayers]_vars

\* The documents of the collection that belong to other players than id.
OthersOf(players_collection, id) ==
    SelectSeq(players_collection, LAMBDA p : p.player_id # id)

\* C24: the players collection holds at most one document per player_id;
\* add_player leaves the documents of the other players as they are; no
\* step takes a player out of the collection.
TrackedPlayerUniqueness ==
    /\ [](\A i, j \in DOMAIN players :
              players[i].player_id = players[j].player_id => i = j)
    /\ [][/\ ret'.op = "add_player" =>
                 OthersOf(players', ret'.player_id) = OthersOf(players, ret'.player_id)
          /\ \A i \in DOMAIN players : \E j \in DOMAIN players' :
                 players'[j].player_id = players[i].player_id]_vars

\* add_player has just been called for a player the collection already
\* held next to another one, after force_check_player registered one.
TrackedPlayerUniquenessWitness ==
    /\ ret.op = "add_player"
    /\ ret.player_registered
    /\ Len(players) = 2
    /\ Len(registered) > 0

(***************************************************************************)
(* SpecRepeat: check_for_new_games of main.py run again and again over a   *)
(* fetcher that returns the same matches for a player on every call        *)
(***************************************************************************)

\* Cycles of a run with a fixed fetcher.
RepeatCycles == 2

\* Rosters up to one player more than a batch holds, in any order of
\* registration.
RepeatIds == {IdOf(i) : i \in 1..(BATCH_SIZE + 1)}
RepeatRosters ==
    {r \in SeqsUpTo(RepeatIds, BATCH_SIZE + 1) :
        \A i, j \in DOMAIN r : r[i] = r[j] => i = j}

\* What the page of player "1" may list.
RepeatPages == {<<>>, <<CustomMatch>>, <<AutoMatch>>, <<CustomMatch, AutoMatch>>}

\* The fetchers: the custom game is between "1" and "2" and the ranked match
\* is one of "1", so only their pages list anything.
RepeatFetchers ==
    {[id \in RepeatIds |-> IF id = "1" THEN p1 ELSE IF id = "2" THEN p2 ELSE <<>>] :
        p1 \in RepeatPages, p2 \in {<<>>, <<CustomMatch>>}}

\* The for loop over the batch: get_player_matches (the fetch, then the last
\* check time) and the loop over the matches, one clock reading per player.
RECURSIVE MainCheckBatch(_, _, _, _, _)
MainCheckBatch(players_batch, fetcher, all_registered_players, t, acc) ==
    IF Len(players_batch) = 0 THEN acc
    ELSE
        LET player_id == Head(players_batch).player_id
            matches == ObserveAll(fetcher[player_id], player_id)
            r == MainSave(matches, all_registered_players, acc.custom_games,
                          acc.auto_matches, t + 1, "up")
        IN  MainCheckBatch(Tail(players_batch), fetcher, all_registered_players, t + 1,
                [last_check_times |-> SetCheckTime(acc.last_check_times, player_id, t + 1),
                 custom_games |-> r.custom_games,
                 auto_matches |-> r.auto_matches,
                 new_custom_games_count |-> acc.new_custom_games_count + r.new_custom_games,
                 new_auto_matches_count |-> acc.new_auto_matches_count + r.new_auto_matches,
                 now |-> t + 1])

\* check_for_new_games() at current_time
check_for_new_games(docs, fetcher, times, cg, am, current_time) ==
    CHOOSE r \in
        {MainCheckBatch(g.batch, fetcher, docs, current_time,
             [last_check_times |-> g.last_check_times, custom_games |-> cg,
              auto_matches |-> am, new_custom_games_count |-> 0,
              new_auto_matches_count |-> 0, now |-> current_time]) :
         g \in {MainGetPlayersToAnalyze(docs, times, current_time)}} : TRUE

InitRepeat ==
    /\ pc = "idle"
    /\ players \in {DocsOf(roster) : roster \in RepeatRosters}
    /\ in1 \in RepeatFetchers
    /\ in2 = NoMatch
    /\ out1 = NoResult
    /\ out2 = NoResult
    /\ registered = players
    /\ last_check_times = EmptyDict
    /\ custom_games = <<>>
    /\ auto_matches = <<>>
    /\ now = 0
    /\ batch = <<>>
    /\ idx = 1
    /\ env = "main"
    /\ ret = [op |-> "none"]
    /\ checked = {}
    /\ cycles = <<>>

\* One call of check_for_new_games, from get_players_to_analyze to the last
\* player of the batch.
CheckForNewGames ==
    /\ pc = "idle"
    /\ idx <= RepeatCycles
    /\ \E r \in {check_for_new_games(players, in1, last_check_times,
                                     custom_games, auto_matches, now + 1)} :
           /\ last_check_times' = r.last_check_times
           /\ custom_games' = r.custom_games
           /\ auto_matches' = r.auto_matches
           /\ now' = r.now
           /\ ret' = [op |-> "check_for_new_games", cycle |-> idx,
                      new_custom_games_count |-> r.new_custom_games_count,
                      new_auto_matches_count |-> r.new_auto_matches_count,
                      custom_games_before |-> Len(custom_games),
                      auto_matches_before |-> Len(auto_matches)]
    /\ idx' = idx + 1
    /\ UNCHANGED <<pc, registered, players, batch, env, checked, cycles>>
    /\ UNCHANGED pureVars

NextRepeat == CheckForNewGames

SpecRepeat == InitRepeat /\ [][NextRepeat]_vars

\* The second call has returned and left both collections as it found them.
SecondCycleInsertsNothing ==
    /\ ret.new_custom_games_count = 0
    /\ ret.new_auto_matches_count = 0
    /\ Len(custom_games) = ret.custom_games_before
    /\ Len(auto_matches) = ret.auto_matches_before

LOG_LEVELS ==
    [DEBUG |-> 10, INFO |-> 20, WARNING |-> 30, ERROR |-> 40, CRITICAL |-> 50]

\* Check for log level changes every 60 seconds
LOG_CHECK_INTERVAL == 60

\* Seconds between two readings of the clock, and the last reading.
LogStep == 30
LogHorizon == 120

\* Signals counted in a row.
MaxSignals == 3

\* Values of the LOG_LEVEL environment variable and of the stored
\* log_level: the known levels and one that LOG_LEVELS does not hold.
LevelNames == DOMAIN LOG_LEVELS \cup {"TRACE"}

\* LOG_LEVELS.get(name, logging.INFO)
LevelOrInfo(name) ==
    IF name \in DOMAIN LOG_LEVELS THEN LOG_LEVELS[name] ELSE LOG_LEVELS["INFO"]

\* The rotation of a handler that leaves every level but INFO and DEBUG
\* as it is.
RotatedLevelKeeping(level) ==
    IF level = "INFO" THEN "DEBUG"
    ELSE IF level = "DEBUG" THEN "WARNING"
    ELSE level

\* The if / elif / else of change_log_level
RotatedLevel(level) ==
    IF level = "INFO" THEN "DEBUG"
    ELSE IF level = "DEBUG" THEN "WARNING"
    ELSE "INFO"

\* in1 is the value of the stored log_level (NoneV: no such document), in2
\* holds last_log_check, out1 is current_log_level, out2 the level of the
\* logger.
InitLog ==
    /\ pc = "idle"
    /\ in1 = NoneV
    /\ in2 = [last_log_check |-> 0]
    /\ out1 \in LevelNames
    /\ out2 = LevelOrInfo(out1)
    /\ registered = <<>>
    /\ StoreIdle
    /\ cycles = <<>>

\* change_log_level(signum, frame); the handler runs between any two steps
\* of the main thread.
ChangeLogLevel ==
    /\ out1' = RotatedLevel(out1)
    /\ out2' = LevelOrInfo(RotatedLevel(out1))
    /\ ret' = [op |-> "change_log_level",
               new_level |-> IF "new_level" \in DOMAIN ret THEN ret.new_level ELSE NoneV,
               first |-> IF ret.op = "change_log_level" THEN ret.first ELSE out1,
               signals |-> IF ret.op = "change_log_level"
                           THEN Min(ret.signals + 1, MaxSignals + 1) ELSE 1]
    /\ UNCHANGED <<pc, in1, in2, registered, players, last_check_times,
                   custom_games, auto_matches, now, batch, idx, env, checked,
                   cycles>>

\* Somebody writes the log_level document of the config collection.
SetConfig ==
    /\ \E value \in LevelNames : in1' = value
    /\ in1' # in1
    /\ UNCHANGED <<pc, in2, out1, out2, registered>>
    /\ UNCHANGED storeVars

\* Time passes.
LogTick ==
    /\ now < LogHorizon
    /\ now' = now + LogStep
    /\ UNCHANGED <<pc, registered, players, last_check_times, custom_games,
                   auto_matches, batch, idx, env, ret, checked, cycles>>
    /\ UNCHANGED pureVars

\* check_log_level up to "current_log_level = new_level"
CheckLogLevel ==
    /\ pc = "idle"
    /\ IF now - in2.last_log_check < LOG_CHECK_INTERVAL
       THEN /\ ret' = [op |-> "check_log_level", checked |-> FALSE, new_level |-> NoneV]
            /\ UNCHANGED <<pc, in2, out1>>
       ELSE /\ in2' = [last_log_check |-> now]
            /\ IF in1 # NoneV /\ in1 # out1 /\ in1 \in DOMAIN LOG_LEVELS
               THEN /\ out1' = in1
                    /\ pc' = "set_level"
                    /\ ret' = [op |-> "check_log_level", checked |-> TRUE,
                               new_level |-> in1]
               ELSE /\ ret' = [op |-> "check_log_level", checked |-> TRUE,
                               new_level |-> NoneV]
                    /\ UNCHANGED <<pc, out1>>
    /\ UNCHANGED <<in1, out2, registered, players, last_check_times,
                   custom_games, auto_matches, now, batch, idx, env, checked,
                   cycles>>

\* logger.setLevel(LOG_LEVELS[new_level])
CheckLogLevelSet ==
    /\ pc = "set_level"
    /\ out2' = LOG_LEVELS[ret.new_level]
    /\ pc' = "idle"
    /\ ret' = [op |-> "check_log_level", checked |-> TRUE, new_level |-> NoneV]
    /\ UNCHANGED <<in1, in2, out1, registered, players, last_check_times,
                   custom_games, auto_matches, now, batch, idx, env, checked,
                   cycles>>

NextLog ==
    \/ ChangeLogLevel
    \/ SetConfig
    \/ LogTick
    \/ CheckLogLevel
    \/ CheckLogLevelSet

SpecLog == InitLog /\ [][NextLog]_vars

\* A step of the signal handler, a step of check_log_level.
SignalStep == ret'.op = "change_log_level" /\ ret' # ret
CheckStep == ret'.op = "check_log_level" /\ ret' # ret

\* C26: a signal moves INFO to DEBUG, DEBUG to WARNING, WARNING and every
\* other level to INFO; three signals in a row that began at INFO end at
\* INFO; after a signal the logger has the level current_log_level names;
\* check_log_level changes the level only to a stored value that is a known
\* level and differs from the current one.
LogLevelRotation ==
    /\ [][SignalStep =>
             /\ out1 = "INFO" => out1' = "DEBUG"
             /\ out1 = "DEBUG" => out1' = "WARNING"
             /\ out1 = "WARNING" => out1' = "INFO"
             /\ out1 \notin {"INFO", "DEBUG", "WARNING"} => out1' = "INFO"
             /\ out2' = LOG_LEVELS[out1']
             /\ (ret'.signals = 3 /\ ret'.first = "INFO") => out1' = "INFO"]_vars
    /\ [][CheckStep =>
             /\ out1' # out1 =>
                    (in1 \in DOMAIN LOG_LEVELS /\ in1 # out1 /\ out1' = in1)
             /\ out2' # out2 =>
                    (ret.new_level \in DOMAIN LOG_LEVELS /\ out2' = LOG_LEVELS[ret.new_level])]_vars

\* Three signals in a row from INFO have been handled after a level from
\* the config collection was applied.
LogLevelRotationWitness ==
    /\ ret.op = "change_log_level"
    /\ ret.signals = 3
    /\ ret.first = "INFO"
    /\ in1 \in DOMAIN LOG_LEVELS
    /\ in2.last_log_check > 0

(***************************************************************************)
(* SpecRoster: process_matches over pages that list custom games with and  *)
(* without participants                                                    *)
(***************************************************************************)

InitRoster == MonitorInit("roster")

NextRoster ==
    \/ RegisterPlayer
    \/ PkgProcessMatches

SpecRoster == InitRoster /\ [][NextRoster]_vars

\* C27: every record of custom_games has a participant, and a participant
\* that is a tracked player.
CustomGameHasTrackedParticipant ==
    env = "roster" =>
        \A i \in DOMAIN custom_games :
            /\ Len(PlayerIds(custom_games[i])) > 0
            /\ \E k \in DOMAIN PlayerIds(custom_games[i]) :
                   PlayerIds(custom_games[i])[k] \in IdsOf(players)

(***************************************************************************)
(* SpecNav: the navigation of get_player_matches                           *)
(* (services/game_monitor.py)                                              *)
(***************************************************************************)

\* for attempt in range(3)
NavAttempts == 3

\* What page.goto does in one attempt: a response that is ok, a response
\* that is not (an error page), no response (None), an exception.
GotoOutcomes == {"ok", "not_ok", "none", "raise"}

\* What get_player_matches does after an attempt with this outcome: leave
\* the loop to the extraction ("extract"), try again ("goto"), or leave
\* through the except clauses ("failed").
AfterAttempt(attempt, outcome) ==
    IF outcome = "ok" THEN "extract"
    ELSE IF outcome = "raise"
    THEN IF attempt = NavAttempts THEN "failed" ELSE "goto"
    ELSE IF attempt = NavAttempts THEN "extract" ELSE "goto"

\* in1 holds what the site does at each attempt and what the page shown
\* after a response that is not ok lists; out1 is the last outcome, idx the
\* attempt.
InitNav ==
    /\ pc = "goto"
    /\ in1 \in [outcomes : [1..NavAttempts -> GotoOutcomes],
                error_page : {<<>>, <<TableMatch>>}]
    /\ in2 = NoMatch
    /\ out1 = NoResult
    /\ out2 = NoResult
    /\ registered = <<>>
    /\ StoreIdle
    /\ cycles = <<>>

\* One pass of the retry loop.
NavGoto ==
    /\ pc = "goto"
    /\ idx <= NavAttempts
    /\ out1' = in1.outcomes[idx]
    /\ pc' = AfterAttempt(idx, in1.outcomes[idx])
    /\ idx' = IF AfterAttempt(idx, in1.outcomes[idx]) = "goto" THEN idx + 1 ELSE idx
    /\ ret' = [op |-> "goto", attempts |-> idx]
    /\ UNCHANGED <<in1, in2, out2, registered, players, last_check_times,
                   custom_games, auto_matches, now, batch, env, checked, cycles>>

\* page.content() and extract_matches_from_page on whatever page is shown.
NavExtract ==
    /\ pc = "extract"
    /\ pc' = "done"
    /\ out2' = [failed |-> FALSE, extracted |-> TRUE,
                matches |-> IF out1 = "ok" THEN <<CustomMatch>>
                            ELSE IF out1 = "not_ok" THEN in1.error_page
                            ELSE <<>>]
    /\ ret' = [op |-> "get_player_matches", attempts |-> ret.attempts]
    /\ UNCHANGED <<in1, in2, out1, registered, players, last_check_times,
                   custom_games, auto_matches, now, batch, idx, env, checked,
                   cycles>>

\* The third exception leaves the loop: screenshot, raise, browser.close(),
\* the outer except logs it and matches stays [].
NavFailed ==
    /\ pc = "failed"
    /\ pc' = "done"
    /\ out2' = [failed |-> TRUE, extracted |-> FALSE, matches |-> <<>>]
    /\ ret' = [op |-> "get_player_matches", attempts |-> ret.attempts]
    /\ UNCHANGED <<in1, in2, out1, registered, players, last_check_times,
                   custom_games, auto_matches, now, batch, idx, env, checked,
                   cycles>>

NextNav ==
    \/ NavGoto
    \/ NavExtract
    \/ NavFailed

SpecNav == InitNav /\ [][NextNav]_vars

\* C28: at most three attempts are made; the extraction runs only after an
\* attempt that returned an OK response; three attempts without an OK
\* response and without an exception end in a failed check.
NavigationRetry ==
    /\ (pc = "goto" => idx <= 3)
    /\ (ret.op # "none" => ret.attempts <= 3)
    /\ (pc = "done" =>
           /\ out2.extracted => out1 = "ok"
           /\ (\A i \in 1..3 : in1.outcomes[i] \in {"not_ok", "none"}) => out2.failed)

(***************************************************************************)
(* SpecSheet: export_matches of services/sheets_exporter.py on one sheet   *)
(***************************************************************************)

\* Most matches in the list of one call, and calls in a run.
MaxExport == 2
SheetCalls == 3

\* The unique_match_id values of the matches handed to the exporter.
SheetIds == {"m1", "m2"}

\* _get_existing_match_ids over the rows under the header: the ids of
\* column 16 that are not empty; [] when the sheet could not be read.
GetExistingMatchIds(rows, read) ==
    IF read = "error" THEN {}
    ELSE {rows[i] : i \in {j \in DOMAIN rows : rows[j] # ""}}

\* export_matches(matches) on a sheet with these rows: the rows after the
\* call and the number returned.
export_matches(rows, matches, connected, read) ==
    IF ~connected THEN [rows |-> rows, returned |-> 0]
    ELSE
        LET existing_match_ids == GetExistingMatchIds(rows, read)
            new_matches == SelectSeq(matches, LAMBDA id : id \notin existing_match_ids)
        IN  [rows |-> rows \o new_matches, returned |-> Len(new_matches)]

\* out1 is the Match ID column of the worksheet under the header, in1 says
\* whether the exporter is connected.
InitSheet ==
    /\ pc = "sheet"
    /\ in1 = FALSE
    /\ in2 = NoMatch
    /\ out1 = <<>>
    /\ out2 = NoResult
    /\ registered = <<>>
    /\ StoreIdle
    /\ cycles = <<>>

\* connect() succeeds.
SheetConnect ==
    /\ pc = "sheet"
    /\ ~in1
    /\ in1' = TRUE
    /\ UNCHANGED <<pc, in2, out1, out2, registered>>
    /\ UNCHANGED storeVars

\* One call of export_matches.
ExportMatches ==
    /\ pc = "sheet"
    /\ now < SheetCalls
    /\ now' = now + 1
    /\ \E matches \in SeqsUpTo(SheetIds, MaxExport) : \E read \in {"ok", "error"} :
       \E r \in {export_matches(out1, matches, in1, read)} :
           /\ out1' = r.rows
           /\ ret' = [op |-> "export_matches", matches |-> matches,
                      connected |-> in1, returned |-> r.returned,
                      rows_before |-> Len(out1)]
    /\ UNCHANGED <<pc, in1, in2, out2, registered, players, last_check_times,
                   custom_games, auto_matches, batch, idx, env, checked, cycles>>

NextSheet ==
    \/ SheetConnect
    \/ ExportMatches

SpecSheet == InitSheet /\ [][NextSheet]_vars

\* C29: no unique_match_id is in two rows of the sheet; export_matches
\* returns the number of rows it added, and 0 without writing when the
\* exporter is not connected.
SheetRowsUnique ==
    pc = "sheet" =>
        /\ \A i, j \in DOMAIN out1 : out1[i] = out1[j] => i = j
        /\ ret.op = "export_matches" =>
               /\ ret.returned = Len(out1) - ret.rows_before
               /\ ~ret.connected => ret.returned = 0

(***************************************************************************)
(* The last check times of services/game_monitor.py over the cycles        *)
(***************************************************************************)

\* The players of the roster of a cycle that its batch left out.
NotSelected(cycle) ==
    {cycle.roster[i] : i \in DOMAIN cycle.roster}
        \ {cycle.batch[i] : i \in DOMAIN cycle.batch}

\* C30: a last check time that is set stays set and never goes back; a
\* player whose check completed in the cycle has a time not earlier than
\* that of any player the cycle did not select.
LastCheckMonotone ==
    /\ [][\A id \in DOMAIN last_check_times :
              last_check_times[id] # NoTime =>
                  /\ id \in DOMAIN last_check_times'
                  /\ last_check_times'[id] # NoTime
                  /\ last_check_times'[id][1] >= last_check_times[id][1]]_vars
    /\ [](Len(cycles) > 0 =>
             \A p \in cycles[Len(cycles)].updated :
             \A q \in NotSelected(cycles[Len(cycles)]) :
                 last_check_times[q] # NoTime =>
                     last_check_times[p][1] >= last_check_times[q][1])

\* A check completed in a cycle that left out a player checked before.
LastCheckMonotoneWitness ==
    /\ Len(cycles) > 0
    /\ cycles[Len(cycles)].updated # {}
    /\ \E q \in NotSelected(cycles[Len(cycles)]) : last_check_times[q] # NoTime

=============================================================================
